---- MODULE Spec2Model ----
(***************************************************************************)
(* Model of the fetch-and-extract engine (tools/mcp_web_fetch/fetch_api.py *)
(* and constants.py): URL validation, the retry/backoff loop of            *)
(* fetch_content, identity rotation and the per-domain session pool.       *)
(*                                                                         *)
(* Strings that the code searches with `in` (error messages, content       *)
(* types) are sequences of tokens; a substring test is a contiguous        *)
(* sub-sequence test.  Delays are in milliseconds.                         *)
(***************************************************************************)
EXTENDS Integers, Sequences, FiniteSets, TLC

(***************************************************************************)
(* Bounds of the model (not program constants).                            *)
(***************************************************************************)
\* number of fetch_content calls made on one engine instance
MaxFetches == 2
\* number of transport failures the network produces over the engine's life
MaxFailures == 5
\* longest input text, in runs of one repeated character
MaxRuns == 3
\* largest attempt number handed to _calculate_retry_delay
MaxAttempt == 12
\* most strong, and most medium, markers present in one markup
MaxMarkers == 2
\* most <a> elements in one document
MaxAnchors == 2
\* number of transport failures the network produces for an engine that two
\* threads share
MaxSharedFailures == 2
\* most elements of one JSON array
MaxItems == 3
\* most requests sent through the domain sessions of one engine
MaxRequests == 3
\* most URLs handed to web_fetch_tool in one call
MaxUrls == 2

(***************************************************************************)
(* constants.py                                                            *)
(***************************************************************************)
MAX_RETRY_ATTEMPTS == 5
RETRY_DELAY == 2
MAX_CONTENT_SIZE == 524288000
MAX_EXTRACTED_TEXT_LENGTH == 2000000
MAX_DELAY_SECONDS == 60
MIN_JITTER_DELAY_SECONDS == 1
DEFAULT_RETRY_STRATEGY == "exponential_backoff"
RETRY_STRATEGIES ==
    {"exponential_backoff", "linear_progression", "fibonacci_sequence", "random_jitter"}
RETRIABLE_STATUS_CODES == {429, 500, 502, 503, 504, 520, 521, 522, 523, 524}
RETRIABLE_EXCEPTIONS ==
    {"ConnectionError", "Timeout", "SSLError", "TooManyRedirects",
     "ChunkedEncodingError", "ContentDecodingError", "HTTPError"}
JS_RENDERING_ENABLED == TRUE

\* the keys of BROWSER_PROFILES
BROWSER_PROFILES ==
    {"chrome_windows", "chrome_macos", "firefox_windows", "firefox_macos",
     "safari_macos", "edge_windows"}

\* BROWSER_PROFILES[p]["headers"]: the two Firefox profiles carry the same
\* header dictionary, every other profile has its own.
ProfileHeaders(p) ==
    IF p \in {"firefox_windows", "firefox_macos"} THEN "firefox_headers"
    ELSE p

\* BROWSER_PROFILES[p]["user_agent"]: one distinct string per profile.
ProfileUserAgent(p) == p

\* get_random_browser_profile(): random.choice over the catalogue's keys.
get_random_browser_profile == BROWSER_PROFILES

(***************************************************************************)
(* Token strings                                                           *)
(***************************************************************************)
\* Python's `pat in s` on token strings
Contains(s, pat) ==
    \E i \in 1..(Len(s) - Len(pat) + 1) : SubSeq(s, i, i + Len(pat) - 1) = pat

\* str.lower() on one token
LowerToken(t) ==
    CASE t = "Connection" -> "connection"
      [] t = "Read" -> "read"
      [] t = "Timeout" -> "timeout"
      [] t = "Unavailable" -> "unavailable"
      [] t = "URL" -> "url"
      [] t = "Client" -> "client"
      [] t = "Server" -> "server"
      [] t = "Error" -> "error"
      [] t = "Not" -> "not"
      [] t = "Found" -> "found"
      [] t = "Too" -> "too"
      [] t = "Many" -> "many"
      [] t = "Requests" -> "requests"
      [] t = "Failed" -> "failed"
      [] t = "HTTP" -> "http"
      [] OTHER -> t

\* str.lower()
Lower(s) == [i \in 1..Len(s) |-> LowerToken(s[i])]

(***************************************************************************)
(* URLs, as urlparse() splits them.  malformed: urlparse raises.           *)
(***************************************************************************)
Url(scheme, netloc, path, malformed) ==
    [scheme |-> scheme, netloc |-> netloc, path |-> path, malformed |-> malformed]

ValidUrls ==
    {Url("https", "a.com", "/p", FALSE), Url("http", "b.com:8080", "/", FALSE)}

InvalidUrls ==
    {Url("ftp", "a.com", "/p", FALSE),
     Url("https", "", "/p", FALSE),
     Url("http", "[::1", "/", TRUE)}

Urls == ValidUrls \cup InvalidUrls

\* _is_valid_url without the scheme allow-list
_is_valid_url_any_scheme(u) ==
    IF u.malformed THEN FALSE
    ELSE u.scheme # "" /\ u.netloc # ""

\* all([result.scheme, result.netloc]) and result.scheme in ['http', 'https'];
\* an exception of urlparse gives False.
_is_valid_url(u) ==
    IF u.malformed THEN FALSE
    ELSE u.scheme # "" /\ u.netloc # "" /\ u.scheme \in {"http", "https"}

(***************************************************************************)
(* Transport exceptions (requests.exceptions.RequestException subclasses)  *)
(* as raised by domain_session.get / response.raise_for_status.            *)
(***************************************************************************)
NoStatus == 0

TransportError(type, status_code, msg) ==
    [type |-> type, status_code |-> status_code, msg |-> msg]

NoError == TransportError("none", NoStatus, <<>>)

HTTP429 == TransportError("HTTPError", 429, <<"429", "Client", "Error", "Too", "Many", "Requests">>)
HTTP404 == TransportError("HTTPError", 404, <<"404", "Client", "Error", "Not", "Found">>)
ConnRefused == TransportError("ConnectionError", NoStatus, <<"Failed", "to", "establish", "a", "new", "connection">>)
ReadTimedOut == TransportError("ReadTimeout", NoStatus, <<"Read", "timed", "out", "read", "timeout">>)
InvalidLabel == TransportError("InvalidURL", NoStatus, <<"URL", "has", "an", "invalid", "label">>)

TransportErrors == {HTTP429, HTTP404, ConnRefused, ReadTimedOut, InvalidLabel}

\* the failures the network produces for an engine that serves several fetches:
\* one retriable, one not
ReusedEngineErrors == {HTTP429, InvalidLabel}

\* the `response` argument of _is_retriable_error
NoResponse == [present |-> FALSE, status_code |-> NoStatus]

retriable_patterns ==
    {"connection", "timeout", "ssl", "certificate", "network",
     "temporary", "unavailable", "overloaded", "retry"}

_is_retriable_error(exception, response) ==
    IF response.present /\ response.status_code \in RETRIABLE_STATUS_CODES THEN TRUE
    ELSE IF exception.type \in RETRIABLE_EXCEPTIONS THEN TRUE
    ELSE \E pattern \in retriable_patterns : Contains(Lower(exception.msg), <<pattern>>)

(***************************************************************************)
(* _calculate_retry_delay, in milliseconds.  jitter is the value drawn by  *)
(* random.uniform(-base * 0.3, base * 0.3), in milliseconds.               *)
(***************************************************************************)
Min(a, b) == IF a < b THEN a ELSE b
Max(a, b) == IF a > b THEN a ELSE b

RECURSIVE Pow2(_)
Pow2(n) == IF n = 0 THEN 1 ELSE 2 * Pow2(n - 1)

fib_sequence == <<1, 1, 2, 3, 5, 8, 13, 21, 34>>

\* the cap of line 145 left out
_calculate_retry_delay_uncapped(strategy, attempt, jitter) ==
    LET base_delay == RETRY_DELAY * 1000
    IN CASE strategy = "exponential_backoff" -> base_delay * Pow2(attempt)
         [] strategy = "linear_progression" -> base_delay * (attempt + 1)
         [] strategy = "fibonacci_sequence" ->
               base_delay * fib_sequence[Min(attempt, Len(fib_sequence) - 1) + 1]
         [] strategy = "random_jitter" ->
               Max(MIN_JITTER_DELAY_SECONDS * 1000, base_delay * (attempt + 1) + jitter)
         [] OTHER -> base_delay * Pow2(attempt)

\* every strategy computed as linear_progression
_calculate_retry_delay_linear(strategy, attempt, jitter) ==
    Min(RETRY_DELAY * 1000 * (attempt + 1), MAX_DELAY_SECONDS * 1000)

_calculate_retry_delay(strategy, attempt, jitter) ==
    LET base_delay == RETRY_DELAY * 1000
        delay ==
            CASE strategy = "exponential_backoff" -> base_delay * Pow2(attempt)
              [] strategy = "linear_progression" -> base_delay * (attempt + 1)
              [] strategy = "fibonacci_sequence" ->
                    base_delay * fib_sequence[Min(attempt, Len(fib_sequence) - 1) + 1]
              [] strategy = "random_jitter" ->
                    Max(MIN_JITTER_DELAY_SECONDS * 1000, base_delay * (attempt + 1) + jitter)
              [] OTHER -> base_delay * Pow2(attempt)
    IN Min(delay, MAX_DELAY_SECONDS * 1000)

\* the values random.uniform(-base * 0.3, base * 0.3) is sampled at:
\* both ends and the middle of the interval
JitterChoices(strategy, attempt) ==
    IF strategy = "random_jitter"
    THEN LET base == RETRY_DELAY * 1000 * (attempt + 1)
         IN {-((base * 3) \div 10), 0, (base * 3) \div 10}
    ELSE {0}

(***************************************************************************)
(* Responses of the transport (status 2xx, raise_for_status passed).       *)
(***************************************************************************)
\* what _needs_javascript_rendering reads of the decoded markup
Markup(html_length, stripped_length, strong, medium, visible_text_length, has_body, body_children) ==
    [html_length |-> html_length, stripped_length |-> stripped_length,
     strong |-> strong, medium |-> medium,
     visible_text_length |-> visible_text_length,
     has_body |-> has_body, body_children |-> body_children]

StaticPage == Markup(4000, 4000, 0, 0, 2000, TRUE, 8)
SpaShell == Markup(1200, 1200, 1, 0, 20, TRUE, 2)
NoMarkup == Markup(0, 0, 0, 0, 0, FALSE, 0)

\* a strong marker weighted like a medium one
_needs_javascript_rendering_weak_strong(content) ==
    IF content.html_length = 0 \/ content.stripped_length < 300 THEN TRUE
    ELSE LET ratio_score ==
                 IF content.visible_text_length * 100 < 5 * content.html_length THEN 2
                 ELSE IF content.visible_text_length * 10 < content.html_length THEN 1
                 ELSE 0
             body_score ==
                 IF content.has_body /\ content.body_children <= 3
                    /\ content.visible_text_length < 500
                 THEN 1 ELSE 0
         IN content.strong + content.medium + ratio_score + body_score >= 2

_needs_javascript_rendering(content) ==
    IF content.html_length = 0 \/ content.stripped_length < 300 THEN TRUE
    ELSE LET strong_score == 2 * content.strong
             medium_score == content.medium
             ratio_score ==
                 IF content.html_length > 0
                 THEN IF content.visible_text_length * 100 < 5 * content.html_length THEN 2
                      ELSE IF content.visible_text_length * 10 < content.html_length THEN 1
                      ELSE 0
                 ELSE 0
             body_score ==
                 IF content.has_body /\ content.body_children <= 3
                    /\ content.visible_text_length < 500
                 THEN 1 ELSE 0
             js_indicators == strong_score + medium_score + ratio_score + body_score
         IN js_indicators >= 2

\* the markups handed to the classifier: lengths on both sides of the
\* 300-character floor and of the 5% and 10% ratios, up to MaxMarkers markers
\* of each weight, bodies with few and with many children
Markups ==
    {m \in [html_length : {0, 200, 300, 1000, 10000},
            stripped_length : {0, 199, 200, 299, 300, 999, 1000, 9999, 10000},
            strong : 0..MaxMarkers,
            medium : 0..MaxMarkers,
            visible_text_length : {0, 49, 50, 99, 100, 499, 500, 5000},
            has_body : BOOLEAN,
            body_children : {0, 3, 4}] :
        /\ m.stripped_length \in {m.html_length, m.html_length - 1}
        /\ m.visible_text_length <= m.stripped_length
        /\ ~m.has_body => m.body_children = 0}

\* a transport response: the Content-Type and Content-Length headers as
\* declared, the number of bytes of the body actually received, and what the
\* extractors read of the body
Response(status_code, content_type, has_content_length, content_length, body_length, markup, json_valid) ==
    [status_code |-> status_code, content_type |-> content_type,
     has_content_length |-> has_content_length,
     content_length |-> content_length, body_length |-> body_length,
     markup |-> markup, json_valid |-> json_valid]

\* the local `response` before the transport has returned
NoneResponse == Response(NoStatus, <<>>, FALSE, 0, 0, NoMarkup, FALSE)

Responses ==
    {Response(200, <<"text/", "html", "; charset=utf-8">>, TRUE, 4000, 4000, StaticPage, FALSE),
     Response(200, <<"text/", "html">>, FALSE, 0, 1200, SpaShell, FALSE),
     Response(200, <<"application/", "json">>, TRUE, 120, 120, NoMarkup, TRUE),
     Response(200, <<"application/", "json">>, FALSE, 0, 7, NoMarkup, FALSE),
     Response(200, <<"text/", "plain">>, TRUE, 64, 64, NoMarkup, FALSE),
     Response(200, <<"image/", "png">>, TRUE, 2048, 2048, NoMarkup, FALSE),
     Response(200, <<>>, FALSE, 0, 16, NoMarkup, FALSE),
     Response(200, <<"application/", "ld+", "json">>, FALSE, 0, 300, NoMarkup, TRUE),
     Response(200, <<"text/", "html">>, TRUE, MAX_CONTENT_SIZE + 1, MAX_CONTENT_SIZE + 1, StaticPage, FALSE),
     Response(200, <<"text/", "plain">>, FALSE, 0, MAX_CONTENT_SIZE + 1, NoMarkup, FALSE),
     Response(200, <<"text/", "plain">>, TRUE, 64, MAX_CONTENT_SIZE + 1, NoMarkup, FALSE)}

SUPPORTED_CONTENT_TYPES ==
    {<<"text/", "html">>, <<"text/", "plain">>, <<"application/", "json">>,
     <<"application/", "xml">>, <<"text/", "xml">>, <<"application/", "rss+", "xml">>,
     <<"application/", "atom+", "xml">>, <<"text/", "css">>,
     <<"application/", "javascript">>, <<"text/", "javascript">>,
     <<"application/", "xhtml+", "xml">>, <<"text/", "csv">>,
     <<"application/", "x-", "www-form-urlencoded">>, <<"text/">>,
     <<"application/", "x-">>}

StartsWith(s, prefix) ==
    Len(s) >= Len(prefix) /\ SubSeq(s, 1, Len(prefix)) = prefix

\* the membership test written the wrong way round: content_type in supported
_is_supported_content_type_reversed(content_type) ==
    \/ \E supported \in SUPPORTED_CONTENT_TYPES : Contains(supported, content_type)
    \/ StartsWith(content_type, <<"text/">>)
    \/ Contains(content_type, <<"json">>)
    \/ Contains(content_type, <<"xml">>)

_is_supported_content_type(content_type) ==
    \/ \E supported \in SUPPORTED_CONTENT_TYPES : Contains(content_type, supported)
    \/ StartsWith(content_type, <<"text/">>)
    \/ Contains(content_type, <<"json">>)
    \/ Contains(content_type, <<"xml">>)

\* what _render_with_javascript can end with: Playwright returns markup; else
\* requests-html returns markup, fails after its retry, or neither library is
\* installed.
RenderOutcomes == {"playwright_ok", "fallback_ok", "fallback_failed", "unavailable"}

(***************************************************************************)
(* Client states: requests.Session / httpx.Client / HTMLSession.           *)
(* cookies: the domains whose cookies the jar holds.                       *)
(***************************************************************************)
ClientState(headers, accept_encoding, user_agent, cookies) ==
    [headers |-> headers, accept_encoding |-> accept_encoding,
     user_agent |-> user_agent, cookies |-> cookies]

\* js_session = None
NoSession == ClientState("none", "none", "none", {})

\* requests.Session() carrying a profile's headers and user agent (lines 40-45,
\* 508-511, 336-338)
ProfileSession(p) == ClientState(ProfileHeaders(p), "profile", ProfileUserAgent(p), {})

\* a domain session built from the catalogue's first profile instead of the
\* current one
StaleDomainSession(p) ==
    ClientState(ProfileHeaders("chrome_windows"), "gzip, deflate",
                ProfileUserAgent("chrome_windows"), {})

\* the session _get_domain_session builds (lines 98-105)
NewDomainSession(p) ==
    ClientState(ProfileHeaders(p), "gzip, deflate", ProfileUserAgent(p), {})

\* httpx.Client(headers=profile["headers"]) at construction keeps httpx's own
\* User-Agent (lines 49-56)
InitialHttpxClient(p) == ClientState(ProfileHeaders(p), "profile", "python-httpx", {})

EmptyPool == [d \in {} |-> NoSession]

\* a new session built on every call
_get_domain_session_per_call(pool, u, profile) ==
    (u.netloc :> NewDomainSession(profile)) @@ pool

\* session_pool after _get_domain_session(url)
_get_domain_session(pool, u, profile) ==
    IF u.netloc \in DOMAIN pool THEN pool
    ELSE (u.netloc :> NewDomainSession(profile)) @@ pool

\* the pool left as it is
SessionPoolKeep(pool) == pool

\* URLs on equal and on different authorities
SessionUrls ==
    {Url("https", "a.com", "/p", FALSE),
     Url("https", "a.com", "/q", FALSE),
     Url("http", "a.com", "/p", FALSE),
     Url("https", "a.com:8080", "/p", FALSE),
     Url("https", "b.com", "/p", FALSE)}

\* the jar of domain's session after a response to a request for u set a cookie
StoreCookieOf(pool, domain, u) ==
    [pool EXCEPT ![domain].cookies = @ \cup {u}]

\* session_pool.clear()
SessionPoolClear(pool) == EmptyPool

\* the jar of the domain session after a response that sets a cookie
StoreCookie(pool, domain) ==
    [pool EXCEPT ![domain].cookies = @ \cup {domain}]

(***************************************************************************)
(* What fetch_content returns or raises.                                   *)
(***************************************************************************)
\* extracted_from: the markup the HTML extractor was given, "original" (the
\* transport response) or "rendered" (the renderer's output)
Result(status, exc, msg, content_type, javascript_rendered, extracted_from) ==
    [status |-> status, exc |-> exc, msg |-> msg, content_type |-> content_type,
     javascript_rendered |-> javascript_rendered, extracted_from |-> extracted_from]

NoResult == Result("none", "none", <<>>, "", FALSE, "none")
Raised(exc, msg) == Result("raised", exc, msg, "", FALSE, "none")
Success(status, content_type, javascript_rendered, extracted_from) ==
    Result(status, "none", <<>>, content_type, javascript_rendered, extracted_from)

\* except Exception
except_clause_catches_all(exc) == TRUE

\* except (requests.exceptions.RequestException, httpx.RequestError)
except_clause_matches(exc) == exc \in {"RequestException", "RequestError"}

\* whether _render_with_javascript is called for response r (lines 451-462)
RenderInvoked(r) ==
    /\ _is_supported_content_type(Lower(r.content_type))
    /\ ~(r.has_content_length /\ r.content_length > MAX_CONTENT_SIZE)
    /\ Contains(Lower(r.content_type), <<"text/", "html">>)
    /\ _needs_javascript_rendering(r.markup)
    /\ JS_RENDERING_ENABLED

\* what _render_with_javascript returns for outcome ro: markup, or None
\* (lines 253-258)
_render_with_javascript(ro) ==
    IF ro \in {"playwright_ok", "fallback_ok"} THEN "markup" ELSE "None"

\* the try body with a renderer failure propagating instead of falling back
ProcessResponseRenderFatal(r, ro) ==
    LET content_type == Lower(r.content_type)
    IN IF ~_is_supported_content_type(content_type)
       THEN Raised("ValueError", <<"Unsupported content type">>)
       ELSE IF r.has_content_length /\ r.content_length > MAX_CONTENT_SIZE
       THEN Raised("ValueError", <<"Content too large">>)
       ELSE IF Contains(content_type, <<"text/", "html">>)
       THEN IF RenderInvoked(r)
            THEN IF _render_with_javascript(ro) = "markup"
                 THEN Success("success_js_rendered", "text/html", TRUE, "rendered")
                 ELSE Raised("Exception", <<"JavaScript rendering failed">>)
            ELSE Success("success", "text/html", FALSE, "original")
       ELSE IF Contains(content_type, <<"application/", "json">>)
       THEN IF r.json_valid
            THEN Success("success", "application/json", FALSE, "none")
            ELSE Raised("ValueError", <<"Invalid JSON content">>)
       ELSE Success("success", "text/plain", FALSE, "none")

\* the try body after the transport returned r (lines 440-482)
ProcessResponse(r, ro) ==
    LET content_type == Lower(r.content_type)
    IN IF ~_is_supported_content_type(content_type)
       THEN Raised("ValueError", <<"Unsupported content type">>)
       ELSE IF r.has_content_length /\ r.content_length > MAX_CONTENT_SIZE
       THEN Raised("ValueError", <<"Content too large">>)
       ELSE IF Contains(content_type, <<"text/", "html">>)
       THEN IF RenderInvoked(r) /\ _render_with_javascript(ro) = "markup"
            THEN Success("success_js_rendered", "text/html", TRUE, "rendered")
            ELSE Success("success", "text/html", FALSE, "original")
       ELSE IF Contains(content_type, <<"application/", "json">>)
       THEN IF r.json_valid
            THEN Success("success", "application/json", FALSE, "none")
            ELSE Raised("ValueError", <<"Invalid JSON content">>)
       ELSE Success("success", "text/plain", FALSE, "none")

\* js_session after _render_with_requests_html ran (lines 335-344)
_render_with_requests_html(js, profile, u, ro) ==
    LET created == IF js = NoSession THEN ProfileSession(profile) ELSE js
    IN IF ro = "fallback_ok"
       THEN [created EXCEPT !.cookies = @ \cup {u.netloc}]
       ELSE created

\* js_session after the try body handled response r
JsSessionAfter(js, profile, u, r, ro) ==
    IF RenderInvoked(r) /\ ro \in {"fallback_ok", "fallback_failed"}
    THEN _render_with_requests_html(js, profile, u, ro)
    ELSE js

(***************************************************************************)
(* Text.  A str is a sequence of runs, each one character repeated n >= 1  *)
(* times, adjacent runs of different characters; <<>> is the empty str.    *)
(***************************************************************************)
Run(ch, n) == [ch |-> ch, n |-> n]

\* the characters str.strip() and str.split() treat as whitespace
IsSpace(ch) == ch \in {" ", "\t", "\n"}

\* len(text)
RECURSIVE TextLen(_)
TextLen(text) == IF text = <<>> THEN 0 ELSE Head(text).n + TextLen(Tail(text))

\* a + b
Cat(a, b) ==
    IF a = <<>> THEN b
    ELSE IF b = <<>> THEN a
    ELSE IF a[Len(a)].ch = b[1].ch
    THEN SubSeq(a, 1, Len(a) - 1) \o <<Run(b[1].ch, a[Len(a)].n + b[1].n)>> \o Tail(b)
    ELSE a \o b

\* text[:k]
RECURSIVE Take(_, _)
Take(text, k) ==
    IF k <= 0 \/ text = <<>> THEN <<>>
    ELSE IF Head(text).n <= k
    THEN <<Head(text)>> \o Take(Tail(text), k - Head(text).n)
    ELSE <<Run(Head(text).ch, k)>>

RECURSIVE LStrip(_)
LStrip(text) ==
    IF text # <<>> /\ IsSpace(Head(text).ch) THEN LStrip(Tail(text)) ELSE text

RECURSIVE RStrip(_)
RStrip(text) ==
    IF text # <<>> /\ IsSpace(text[Len(text)].ch)
    THEN RStrip(SubSeq(text, 1, Len(text) - 1))
    ELSE text

\* text.strip()
Strip(text) == RStrip(LStrip(text))

\* len(text.split())
WordCount(text) ==
    Cardinality({i \in 1..Len(text) :
                    ~IsSpace(text[i].ch) /\ (i = 1 \/ IsSpace(text[i - 1].ch))})

\* re.sub(r'[ \t]+', ' ', text)
RECURSIVE CollapseBlanks(_)
CollapseBlanks(text) ==
    IF text = <<>> THEN <<>>
    ELSE LET rest == CollapseBlanks(Tail(text))
         IN IF Head(text).ch \in {" ", "\t"}
            THEN IF rest # <<>> /\ rest[1] = Run(" ", 1)
                 THEN rest
                 ELSE <<Run(" ", 1)>> \o rest
            ELSE <<Head(text)>> \o rest

\* re.sub(r'\n[ \t]*\n', '\n\n', text) on a text whose blanks are collapsed:
\* the scan pairs the newlines of a run from its left; the unpaired last one
\* of an odd run matches across a blank into the next newline
RECURSIVE JoinBlankLines(_)
JoinBlankLines(text) ==
    IF text = <<>> THEN <<>>
    ELSE IF /\ Head(text).ch = "\n"
            /\ Head(text).n % 2 = 1
            /\ Len(text) >= 3
            /\ text[2].ch \in {" ", "\t"}
            /\ text[3].ch = "\n"
    THEN Cat(<<Run("\n", Head(text).n + 1)>>,
             JoinBlankLines((IF text[3].n > 1
                             THEN <<Run("\n", text[3].n - 1)>>
                             ELSE <<>>) \o SubSeq(text, 4, Len(text))))
    ELSE Cat(<<Head(text)>>, JoinBlankLines(Tail(text)))

\* re.sub(r'\n{3,}', '\n\n', text)
SqueezeNewlines(text) ==
    [i \in 1..Len(text) |->
        IF text[i].ch = "\n" /\ text[i].n >= 3 THEN Run("\n", 2) ELSE text[i]]

\* "... [content truncated]"
TruncationMarker ==
    <<Run(".", 3), Run(" ", 1), Run("[", 1), Run("c", 1), Run("o", 1), Run("n", 1),
      Run("t", 1), Run("e", 1), Run("n", 1), Run("t", 1), Run(" ", 1), Run("t", 1),
      Run("r", 1), Run("u", 1), Run("n", 1), Run("c", 1), Run("a", 1), Run("t", 1),
      Run("e", 1), Run("d", 1), Run("]", 1)>>

\* the three substitutions of lines 837-839
NormalizeWhitespace(text) == SqueezeNewlines(JoinBlankLines(CollapseBlanks(text)))

_clean_text_content(text) ==
    IF text = <<>> THEN <<>>
    ELSE LET normalized == NormalizeWhitespace(text)
             limited == IF TextLen(normalized) > MAX_EXTRACTED_TEXT_LENGTH
                        THEN Cat(Take(normalized, MAX_EXTRACTED_TEXT_LENGTH),
                                 TruncationMarker)
                        ELSE normalized
         IN Strip(limited)

\* text ends with the truncation marker
EndsWithMarker(text) ==
    /\ TextLen(text) >= TextLen(TruncationMarker)
    /\ Cat(Take(text, TextLen(text) - TextLen(TruncationMarker)), TruncationMarker) = text

\* what json.dumps(json_data, indent=2) can return: a non-empty text without
\* whitespace at either end and without a raw tab
IsJsonDump(text) ==
    /\ text # <<>>
    /\ Strip(text) = text
    /\ \A i \in 1..Len(text) : text[i].ch # "\t"

\* what an extractor builds from a text: the content and word_count fields
Extracted(content, word_count) == [content |-> content, word_count |-> word_count]

\* _extract_html_content_static, main_content being the text the extraction
\* chain returned (lines 606-609)
_extract_html_content_static(main_content) ==
    Extracted(main_content, IF main_content # <<>> THEN WordCount(main_content) ELSE 0)

\* _extract_json_content, content being json.dumps(json_data, indent=2)
_extract_json_content(content) ==
    Extracted(Take(content, MAX_EXTRACTED_TEXT_LENGTH), WordCount(content))

\* _extract_plain_content, full_content being the decoded body
_extract_plain_content(full_content) ==
    LET content == Take(full_content, MAX_EXTRACTED_TEXT_LENGTH)
    IN Extracted(content, WordCount(content))

\* JSON structures: a string of n letters, or an array of such strings
JsonString(n) == [kind |-> "string", n |-> n, items |-> <<>>]
JsonArray(items) == [kind |-> "array", n |-> 0, items |-> items]

\* json.dumps of a string of n letters
DumpString(n) ==
    Cat(Cat(<<Run("\"", 1)>>, IF n > 0 THEN <<Run("a", n)>> ELSE <<>>), <<Run("\"", 1)>>)

\* the lines of the elements json.dumps(..., indent=2) writes for an array
RECURSIVE DumpItems(_)
DumpItems(items) ==
    IF items = <<>> THEN <<>>
    ELSE Cat(Cat(<<Run("\n", 1), Run(" ", 2)>>, DumpString(Head(items))),
             IF Len(items) > 1
             THEN Cat(<<Run(",", 1)>>, DumpItems(Tail(items)))
             ELSE <<Run("\n", 1)>>)

\* json.dumps(json_data, indent=2, ensure_ascii=False)
json_dumps(json_data) ==
    IF json_data.kind = "string" THEN DumpString(json_data.n)
    ELSE Cat(Cat(<<Run("[", 1)>>, DumpItems(json_data.items)), <<Run("]", 1)>>)

\* the structures response.json() returns: strings and arrays of strings,
\* short ones and ones whose dump is around MAX_EXTRACTED_TEXT_LENGTH
StringLengths ==
    {0, 1, 3, MAX_EXTRACTED_TEXT_LENGTH - 3, MAX_EXTRACTED_TEXT_LENGTH - 2,
     MAX_EXTRACTED_TEXT_LENGTH - 1}
ItemLengths == {0, 1, 2, 999990, 1000000}
JsonValues ==
    {JsonString(n) : n \in StringLengths}
    \cup {JsonArray(items) : items \in UNION {[1..k -> ItemLengths] : k \in 0..MaxItems}}

\* the input texts: up to MaxRuns runs, short ones and ones around the limit
RunLengths == {1, 2, 3, MAX_EXTRACTED_TEXT_LENGTH - 1, MAX_EXTRACTED_TEXT_LENGTH + 1}
Runs == {Run(ch, n) : ch \in {"a", " ", "\t", "\n"}, n \in RunLengths}
Texts ==
    {text \in UNION {[1..k -> Runs] : k \in 0..MaxRuns} :
        \A i \in 1..(Len(text) - 1) : text[i].ch # text[i + 1].ch}

(***************************************************************************)
(* Links.  A URL string is a token string such as                          *)
(* <<"https", ":", "//", "a.com", "/", "p">>; an anchor element is its     *)
(* href attribute, if it has one, and the text inside it.                  *)
(***************************************************************************)
\* str.split('/') of a path
RECURSIVE SplitPath(_)
SplitPath(path) ==
    IF path = <<>> THEN <<"">>
    ELSE IF Head(path) = "/" THEN <<"">> \o SplitPath(Tail(path))
    ELSE <<Head(path)>> \o Tail(SplitPath(Tail(path)))

\* '/'.join(segments)
RECURSIVE JoinPath(_)
JoinPath(segments) ==
    IF segments = <<>> THEN <<>>
    ELSE (IF Head(segments) = "" THEN <<>> ELSE <<Head(segments)>>)
         \o (IF Len(segments) > 1 THEN <<"/">> \o JoinPath(Tail(segments)) ELSE <<>>)

\* urlparse(ref, default_scheme): scheme (lower-cased), netloc, path, fragment
urlparse(ref, default_scheme) ==
    LET has_scheme == Len(ref) >= 2 /\ ref[2] = ":"
        after_scheme == IF has_scheme THEN SubSeq(ref, 3, Len(ref)) ELSE ref
        has_netloc == Len(after_scheme) >= 2 /\ after_scheme[1] = "//"
        after_netloc == IF has_netloc THEN SubSeq(after_scheme, 3, Len(after_scheme))
                        ELSE after_scheme
        hash == IF \E i \in 1..Len(after_netloc) : after_netloc[i] = "#"
                THEN CHOOSE i \in 1..Len(after_netloc) :
                        /\ after_netloc[i] = "#"
                        /\ \A j \in 1..(i - 1) : after_netloc[j] # "#"
                ELSE Len(after_netloc) + 1
    IN [scheme |-> IF has_scheme THEN LowerToken(ref[1]) ELSE default_scheme,
        netloc |-> IF has_netloc THEN <<after_scheme[2]>> ELSE <<>>,
        path |-> SubSeq(after_netloc, 1, hash - 1),
        fragment |-> SubSeq(after_netloc, hash + 1, Len(after_netloc))]

\* urlunparse
urlunparse(parts) ==
    LET rooted == IF parts.netloc # <<>> /\ parts.path # <<>> /\ Head(parts.path) # "/"
                  THEN <<"/">> \o parts.path
                  ELSE parts.path
    IN (IF parts.scheme # "" THEN <<parts.scheme, ":">> ELSE <<>>)
       \o (IF parts.netloc # <<>> THEN <<"//">> \o parts.netloc ELSE <<>>)
       \o rooted
       \o (IF parts.fragment # <<>> THEN <<"#">> \o parts.fragment ELSE <<>>)

\* the loop over the segments in urljoin: '..' drops the last resolved segment,
\* '.' is skipped
RECURSIVE ResolveDots(_, _)
ResolveDots(segments, resolved_path) ==
    IF segments = <<>> THEN resolved_path
    ELSE IF Head(segments) = ".."
    THEN ResolveDots(Tail(segments),
                     IF resolved_path = <<>> THEN <<>>
                     ELSE SubSeq(resolved_path, 1, Len(resolved_path) - 1))
    ELSE IF Head(segments) = "."
    THEN ResolveDots(Tail(segments), resolved_path)
    ELSE ResolveDots(Tail(segments), Append(resolved_path, Head(segments)))

\* segments[1:-1] = filter(None, segments[1:-1])
DropEmptyInside(segments) ==
    IF Len(segments) <= 2 THEN segments
    ELSE <<Head(segments)>>
         \o SelectSeq(SubSeq(segments, 2, Len(segments) - 1), LAMBDA seg : seg # "")
         \o <<segments[Len(segments)]>>

uses_relative == {"http", "https", "ftp", "file"}

\* urllib.parse.urljoin
urljoin(base_url, href) ==
    IF href = <<>> THEN base_url
    ELSE LET b == urlparse(base_url, "")
             r == urlparse(href, b.scheme)
         IN IF r.scheme # b.scheme \/ r.scheme \notin uses_relative THEN href
            ELSE IF r.netloc # <<>> THEN urlunparse(r)
            ELSE IF r.path = <<>>
            THEN urlunparse([scheme |-> r.scheme, netloc |-> b.netloc, path |-> b.path,
                             fragment |-> r.fragment])
            ELSE LET base_all == SplitPath(b.path)
                     base_parts == IF base_all[Len(base_all)] # ""
                                   THEN SubSeq(base_all, 1, Len(base_all) - 1)
                                   ELSE base_all
                     segments == IF Head(r.path) = "/" THEN SplitPath(r.path)
                                 ELSE DropEmptyInside(base_parts \o SplitPath(r.path))
                     resolved == ResolveDots(segments, <<>>)
                     resolved_path == IF segments[Len(segments)] \in {".", ".."}
                                      THEN Append(resolved, "")
                                      ELSE resolved
                     joined == JoinPath(resolved_path)
                 IN urlunparse([scheme |-> r.scheme, netloc |-> b.netloc,
                                path |-> IF joined = <<>> THEN <<"/">> ELSE joined,
                                fragment |-> r.fragment])

\* an <a> element
Anchor(has_href, href, inner_text) ==
    [has_href |-> has_href, href |-> href, text |-> inner_text]

\* absolute_url.startswith(('http://', 'https://'))
IsHttpUrl(absolute_url) ==
    \/ StartsWith(absolute_url, <<"http", ":", "//">>)
    \/ StartsWith(absolute_url, <<"https", ":", "//">>)

\* the loop of _extract_links without the scheme test
RECURSIVE LinksOfAnyScheme(_, _)
LinksOfAnyScheme(anchors, base_url) ==
    IF anchors = <<>> THEN <<>>
    ELSE LET link == Head(anchors)
             stripped == Strip(link.text)
             absolute_url == urljoin(base_url, link.href)
         IN (IF stripped # <<>>
             THEN <<[url |-> absolute_url, text |-> Take(stripped, 200)]>>
             ELSE <<>>)
            \o LinksOfAnyScheme(Tail(anchors), base_url)

\* the loop of _extract_links over the anchors it was given: the anchors that
\* pass the test of line 890, in their order, each as the record of lines
\* 891-894
LinksOf(anchors, base_url) ==
    LET appended == SelectSeq(anchors,
                              LAMBDA link : /\ Strip(link.text) # <<>>
                                            /\ IsHttpUrl(urljoin(base_url, link.href)))
    IN [i \in 1..Len(appended) |->
           [url |-> urljoin(base_url, appended[i].href),
            text |-> Take(Strip(appended[i].text), 200)]]

\* soup.find_all('a', href=True)[:100]
AnchorsWithHref(soup) ==
    LET found == SelectSeq(soup, LAMBDA a : a.has_href)
    IN SubSeq(found, 1, Min(Len(found), 100))

_extract_links(soup, base_url) == LinksOf(AnchorsWithHref(soup), base_url)

\* the text Click, and a text of n letters
Click == <<Run("C", 1), Run("l", 1), Run("i", 1), Run("c", 1), Run("k", 1)>>
Letters(n) == <<Run("a", n)>>

\* the page URLs and the <a> elements of the documents handed to _extract_links
PageUrls ==
    {<<"https", ":", "//", "a.com", "/", "p">>,
     <<"http", ":", "//", "a.com", "/", "dir", "/", "page">>}

Anchors ==
    {Anchor(TRUE, <<"/", "x">>, Click),
     Anchor(TRUE, <<"mailto", ":", "a@b.c">>, Letters(4)),
     Anchor(FALSE, <<>>, Letters(3)),
     Anchor(TRUE, <<"/", "x">>, <<Run(" ", 2), Run("\n", 1)>>),
     Anchor(TRUE, <<"..", "/", "x">>, <<Run(" ", 1), Run("a", 201), Run("\n", 1)>>),
     Anchor(TRUE, <<"HTTP", ":", "//", "a.com", "/", "x">>, Letters(1)),
     Anchor(TRUE, <<"//", "b.com", "/", "y">>, Letters(2)),
     Anchor(TRUE, <<"#", "top">>, Letters(3)),
     Anchor(TRUE, <<"javascript", ":", "void(0)">>, Letters(5)),
     Anchor(TRUE, <<>>, Letters(6))}

Soups == UNION {[1..k -> Anchors] : k \in 0..MaxAnchors}

(***************************************************************************)
(* State.                                                                  *)
(*   browser_profile .. js_session: the fields of WebContentFetcher        *)
(*   pc, url, attempt, response, js_content, e, new_profile, delay:        *)
(*       where fetch_content stands, and its locals; pc = "attempt" is     *)
(*       the head of the retry loop                                        *)
(*   result: what the last fetch_content call returned or raised           *)
(*   transport_calls, sleeps: calls of domain_session.get and time.sleep   *)
(*       made by the current fetch_content call                            *)
(*   fetches, failures: how often fetch_content was called and how often   *)
(*       the transport failed, on this engine                              *)
(*   render_pc .. render_sleeps: where _render_with_javascript stands, the *)
(*       retry_count of the backend call that runs, the calls of each      *)
(*       backend made for the current response, and the renderer's own     *)
(*       time.sleep calls                                                  *)
(*   results, successful_fetches: the locals of web_fetch_tool             *)
(*   api_requests: the params of the requests sent to the search API      *)
(*   threads: where each thread of a shared engine stands                  *)
(*   text .. recleaned, args, returned: the inputs and outputs of the      *)
(*       functions that are also called on their own, described with the   *)
(*       specifications that use them                                      *)
(***************************************************************************)
VARIABLES browser_profile, session_pool, current_session_domain, retry_strategy,
          retry_attempt_history, session, httpx_client, js_session,
          pc, url, attempt, response, js_content, e, new_profile, delay, result,
          transport_calls, sleeps, fetches, failures,
          text, stage, content, word_count, recleaned,
          args, returned,
          method, called, BeautifulSoup_bound,
          render_pc, retry_count, backend_calls, render_sleeps,
          results, successful_fetches, api_requests, threads

engine == <<browser_profile, session_pool, current_session_domain, retry_strategy,
            retry_attempt_history, session, httpx_client, js_session>>
locals == <<pc, url, attempt, response, js_content, e, new_profile, delay, result>>
counters == <<transport_calls, sleeps, fetches, failures>>
texts == <<text, stage, content, word_count, recleaned>>
call == <<args, returned>>
chain == <<method, called, BeautifulSoup_bound>>
rendering == <<render_pc, retry_count, backend_calls, render_sleeps>>
batch == <<results, successful_fetches, api_requests>>
functions == <<texts, call, chain, rendering, batch, threads>>
vars == <<engine, locals, counters, functions>>

\* no text is being processed
TextIdle ==
    /\ text = <<>>
    /\ stage = "none"
    /\ content = <<>>
    /\ word_count = 0
    /\ recleaned = <<>>

\* WebContentFetcher.__init__, as fetch_web_content constructs it
EngineInit ==
    /\ browser_profile \in get_random_browser_profile
    /\ session_pool = EmptyPool
    /\ current_session_domain = "none"
    /\ retry_strategy = DEFAULT_RETRY_STRATEGY
    /\ retry_attempt_history = <<>>
    /\ session = ProfileSession(browser_profile)
    /\ httpx_client = InitialHttpxClient(browser_profile)
    /\ js_session = NoSession
    /\ pc = "idle"
    /\ url = Url("", "", "", FALSE)
    /\ attempt = 0
    /\ response = NoneResponse
    /\ js_content = "unset"
    /\ e = NoError
    /\ new_profile = "none"
    /\ delay = 0
    /\ result = NoResult
    /\ transport_calls = 0
    /\ sleeps = 0
    /\ fetches = 0
    /\ failures = 0

\* no function is being called on its own
CallIdle ==
    /\ args = <<>>
    /\ returned = <<>>

\* no extraction chain is running
ChainIdle ==
    /\ method = "none"
    /\ BeautifulSoup_bound = FALSE
    /\ called = <<>>

\* _render_with_javascript is not running, and neither web_fetch_tool nor a
\* second thread
RenderIdle ==
    /\ render_pc = "idle"
    /\ retry_count = 0
    /\ backend_calls = [playwright |-> 0, requests_html |-> 0]
    /\ render_sleeps = 0
    /\ results = <<>>
    /\ successful_fetches = 0
    /\ api_requests = <<>>
    /\ threads = <<>>

Init ==
    /\ EngineInit
    /\ TextIdle
    /\ CallIdle
    /\ ChainIdle
    /\ RenderIdle

\* fetch_content(u) up to the head of the retry loop (lines 418-434)
FetchContent(u) ==
    /\ pc = "idle"
    /\ fetches < MaxFetches
    /\ fetches' = fetches + 1
    /\ url' = u
    /\ attempt' = 0
    /\ response' = NoneResponse
    /\ js_content' = "unset"
    /\ e' = NoError
    /\ transport_calls' = 0
    /\ sleeps' = 0
    /\ IF ~_is_valid_url(u)
       THEN /\ result' = Raised("ValueError", <<"Invalid URL format">>)
            /\ pc' = "idle"
       ELSE /\ result' = NoResult
            /\ pc' = "attempt"
    /\ UNCHANGED <<engine, new_profile, delay, failures, functions>>

\* retry_info recording the base delay instead of the delay computed
RetryInfoBaseDelay(n, ex, d, strategy) ==
    [attempt |-> n + 1, error |-> ex.msg, error_type |-> ex.type,
     delay |-> RETRY_DELAY * 1000, strategy |-> strategy]

\* retry_info (lines 491-497)
RetryInfo(n, ex, d, strategy) ==
    [attempt |-> n + 1, error |-> ex.msg, error_type |-> ex.type,
     delay |-> d, strategy |-> strategy]

\* the except block retrying on the last pass of the loop as well
ExceptBranchOffByOne(n, ex) ==
    IF n < MAX_RETRY_ATTEMPTS /\ _is_retriable_error(ex, NoResponse) THEN "retry"
    ELSE IF ~_is_retriable_error(ex, NoResponse) THEN "break"
    ELSE "raise"

\* the branch the except block takes (lines 486, 526, 529)
ExceptBranch(n, ex) ==
    IF n < MAX_RETRY_ATTEMPTS - 1 /\ _is_retriable_error(ex, NoResponse) THEN "retry"
    ELSE IF ~_is_retriable_error(ex, NoResponse) THEN "break"
    ELSE "raise"

\* the assignment of line 520 left out
KeepProfile(old, new) == old

\* self.browser_profile = new_profile (line 520)
AssignProfile(old, new) == new

\* the fallback session after lines 508-511
RotatedSession(old, np) == ProfileSession(np)

\* the httpx client after lines 514-518
RotatedHttpxClient(old, np) == ProfileSession(np)

\* the except block (lines 484-529) and, after `break`, line 531; pool and js
\* are session_pool and js_session as the try body left them
HandleException(ex, pool, js) ==
    /\ e' = ex
    /\ js_session' = js
    /\ CASE ExceptBranch(attempt, ex) = "retry" ->
              \E np \in get_random_browser_profile :
              \E jitter \in JitterChoices(retry_strategy, attempt) :
                 LET d == _calculate_retry_delay(retry_strategy, attempt, jitter)
                 IN /\ delay' = d
                    /\ retry_attempt_history' =
                          Append(retry_attempt_history,
                                 RetryInfo(attempt, ex, d, retry_strategy))
                    /\ new_profile' = np
                    /\ session_pool' = SessionPoolClear(pool)
                    /\ session' = RotatedSession(session, np)
                    /\ httpx_client' = RotatedHttpxClient(httpx_client, np)
                    /\ browser_profile' = AssignProfile(browser_profile, np)
                    /\ pc' = "sleep"
                    /\ UNCHANGED result
         [] ExceptBranch(attempt, ex) = "break" ->
              /\ result' = Raised("Exception", <<"Unexpected error in fetch_content">>)
              /\ pc' = "idle"
              /\ session_pool' = pool
              /\ UNCHANGED <<browser_profile, retry_attempt_history, session,
                             httpx_client, new_profile, delay>>
         [] OTHER ->
              /\ result' = Raised("Exception",
                                  <<"Failed to fetch URL after", "5", "attempts">> \o ex.msg)
              /\ pc' = "idle"
              /\ session_pool' = pool
              /\ UNCHANGED <<browser_profile, retry_attempt_history, session,
                             httpx_client, new_profile, delay>>

\* one pass of the loop body in which the transport raises ex (lines 435-438,
\* 412-414, then the except block)
AttemptFails(ex) ==
    /\ pc = "attempt"
    /\ failures < MaxFailures
    /\ failures' = failures + 1
    /\ response' = NoneResponse
    /\ transport_calls' = transport_calls + 1
    /\ current_session_domain' = url.netloc
    /\ LET created == _get_domain_session(session_pool, url, browser_profile)
           pool == IF ex.type = "HTTPError"
                   THEN StoreCookie(created, url.netloc)
                   ELSE created
       IN HandleException(ex, pool, js_session)
    /\ UNCHANGED <<retry_strategy, url, attempt, js_content, sleeps, fetches, functions>>

\* one pass of the loop body in which the transport returns r, and the
\* renderer, if it is called, ends with ro (lines 435-482)
AttemptResponds(r, ro) ==
    /\ pc = "attempt"
    /\ response' = r
    /\ js_content' = IF RenderInvoked(r) THEN _render_with_javascript(ro) ELSE "unset"
    /\ transport_calls' = transport_calls + 1
    /\ current_session_domain' = url.netloc
    /\ LET created == _get_domain_session(session_pool, url, browser_profile)
           pool == StoreCookie(created, url.netloc)
           js == JsSessionAfter(js_session, browser_profile, url, r, ro)
           res == ProcessResponse(r, ro)
       IN IF res.status = "raised" /\ except_clause_matches(res.exc)
          THEN HandleException(TransportError(res.exc, NoStatus, res.msg), pool, js)
          ELSE /\ result' = res
               /\ pc' = "idle"
               /\ session_pool' = pool
               /\ js_session' = js
               /\ e' = NoError
               /\ UNCHANGED <<browser_profile, retry_attempt_history, session,
                              httpx_client, new_profile, delay>>
    /\ UNCHANGED <<retry_strategy, url, attempt, sleeps, fetches, failures, functions>>

\* time.sleep(delay) returns and `continue` takes the loop to its next pass,
\* or past its end to line 531 (lines 524-525, 434, 531)
Sleep ==
    /\ pc = "sleep"
    /\ sleeps' = sleeps + 1
    /\ attempt' = attempt + 1
    /\ IF attempt + 1 < MAX_RETRY_ATTEMPTS
       THEN /\ pc' = "attempt"
            /\ UNCHANGED result
       ELSE /\ pc' = "idle"
            /\ result' = Raised("Exception", <<"Unexpected error in fetch_content">>)
    /\ UNCHANGED <<engine, url, response, js_content, e, new_profile, delay,
                   transport_calls, fetches, failures, functions>>

\* one engine serving up to MaxFetches fetch_content calls, one at a time
Next ==
    \/ \E u \in Urls : FetchContent(u)
    \/ \E ex \in ReusedEngineErrors : AttemptFails(ex)
    \/ \E r \in Responses : \E ro \in RenderOutcomes : AttemptResponds(r, ro)
    \/ Sleep

Spec == Init /\ [][Next]_vars

\* fetch_web_content(u): a fresh engine serves exactly one fetch_content call
\* (lines 927-929)
fetch_web_content(u) ==
    /\ fetches = 0
    /\ FetchContent(u)

NextFresh ==
    \/ \E u \in Urls : fetch_web_content(u)
    \/ \E ex \in TransportErrors : AttemptFails(ex)
    \/ \E r \in Responses : \E ro \in RenderOutcomes : AttemptResponds(r, ro)
    \/ Sleep

SpecFresh == Init /\ [][NextFresh]_vars

(***************************************************************************)
(* One fetch_content call on a fresh engine with _render_with_javascript   *)
(* taken one backend call at a time.  A backend call ends with             *)
(*   "ImportError": the backend's library is not installed                 *)
(*   "raises": any other exception inside the try block                    *)
(*   "markup": non-empty rendered markup                                   *)
(*   "empty": an empty string                                              *)
(***************************************************************************)
BackendOutcomes == {"ImportError", "raises", "markup", "empty"}

\* a backend retrying three times after an exception
RetriesThrice(count) == count < 3

\* `if retry_count < 1` (lines 320, 370)
Retries(count) == count < 1

\* the try body up to the call of _render_with_javascript (lines 435-459)
BeginRender(r) ==
    /\ pc = "attempt"
    /\ RenderInvoked(r)
    /\ response' = r
    /\ transport_calls' = transport_calls + 1
    /\ current_session_domain' = url.netloc
    /\ session_pool' = StoreCookie(_get_domain_session(session_pool, url, browser_profile),
                                   url.netloc)
    /\ pc' = "render"
    /\ render_pc' = "playwright"
    /\ retry_count' = 0
    /\ backend_calls' = [playwright |-> 0, requests_html |-> 0]
    /\ render_sleeps' = 0
    /\ js_content' = "unset"
    /\ UNCHANGED <<browser_profile, retry_strategy, retry_attempt_history, session,
                   httpx_client, js_session, url, attempt, e, new_profile, delay, result,
                   sleeps, fetches, failures, texts, call, chain, batch, threads>>

\* one call of _render_with_playwright (lines 260-326) and, when it returns
\* to _render_with_javascript, lines 253-258
RenderWithPlaywright(outcome) ==
    /\ pc = "render"
    /\ render_pc = "playwright"
    /\ outcome = "ImportError" => retry_count = 0
    /\ backend_calls' = [backend_calls EXCEPT !.playwright = @ + 1]
    /\ CASE outcome = "markup" ->
              /\ js_content' = "markup"
              /\ render_pc' = "done"
              /\ UNCHANGED <<retry_count, render_sleeps>>
         [] outcome = "raises" /\ Retries(retry_count) ->
              /\ render_sleeps' = render_sleeps + 1
              /\ retry_count' = retry_count + 1
              /\ UNCHANGED <<js_content, render_pc>>
         [] OTHER ->
              /\ render_pc' = "requests_html"
              /\ retry_count' = 0
              /\ UNCHANGED <<js_content, render_sleeps>>
    /\ UNCHANGED <<engine, pc, url, attempt, response, e, new_profile, delay, result,
                   counters, texts, call, chain, batch, threads>>

\* one call of _render_with_requests_html (lines 328-376)
RenderWithRequestsHtml(outcome) ==
    /\ pc = "render"
    /\ render_pc = "requests_html"
    /\ outcome = "ImportError" => retry_count = 0
    /\ backend_calls' = [backend_calls EXCEPT !.requests_html = @ + 1]
    /\ js_session' =
          IF outcome = "ImportError" THEN js_session
          ELSE _render_with_requests_html(js_session, browser_profile, url,
                  IF outcome = "raises" THEN "fallback_failed" ELSE "fallback_ok")
    /\ CASE outcome = "markup" ->
              /\ js_content' = "markup"
              /\ render_pc' = "done"
              /\ UNCHANGED <<retry_count, render_sleeps>>
         [] outcome = "empty" ->
              /\ js_content' = "empty"
              /\ render_pc' = "done"
              /\ UNCHANGED <<retry_count, render_sleeps>>
         [] outcome = "raises" /\ Retries(retry_count) ->
              /\ render_sleeps' = render_sleeps + 1
              /\ retry_count' = retry_count + 1
              /\ UNCHANGED <<js_content, render_pc>>
         [] OTHER ->
              /\ js_content' = "None"
              /\ render_pc' = "done"
              /\ UNCHANGED <<retry_count, render_sleeps>>
    /\ UNCHANGED <<browser_profile, session_pool, current_session_domain, retry_strategy,
                   retry_attempt_history, session, httpx_client,
                   pc, url, attempt, response, e, new_profile, delay, result,
                   counters, texts, call, chain, batch, threads>>

\* the try body after _render_with_javascript returned (lines 460-473)
EndRender ==
    /\ pc = "render"
    /\ render_pc = "done"
    /\ result' = IF js_content = "markup"
                 THEN Success("success_js_rendered", "text/html", TRUE, "rendered")
                 ELSE Success("success", "text/html", FALSE, "original")
    /\ pc' = "idle"
    /\ render_pc' = "idle"
    /\ e' = NoError
    /\ UNCHANGED <<engine, url, attempt, response, js_content, new_profile, delay,
                   counters, texts, call, chain, batch, threads,
                   retry_count, backend_calls, render_sleeps>>

\* a response for which the renderer is not called
RespondsUnrendered(r) ==
    /\ ~RenderInvoked(r)
    /\ AttemptResponds(r, "unavailable")

NextRender ==
    \/ \E u \in ValidUrls : fetch_web_content(u)
    \/ \E ex \in ReusedEngineErrors : AttemptFails(ex)
    \/ Sleep
    \/ \E r \in Responses : RespondsUnrendered(r)
    \/ \E r \in Responses : BeginRender(r)
    \/ \E outcome \in BackendOutcomes : RenderWithPlaywright(outcome)
    \/ \E outcome \in BackendOutcomes : RenderWithRequestsHtml(outcome)
    \/ EndRender

SpecRender == Init /\ [][NextRender]_vars

(***************************************************************************)
(* The extractors applied to one text.                                     *)
(*   text: the text an extractor starts from                               *)
(*   stage: which function has produced content                            *)
(*   content, word_count: the fields of the result                         *)
(*   recleaned: _clean_text_content applied to its own output              *)
(***************************************************************************)
InitText ==
    /\ EngineInit
    /\ browser_profile = "chrome_windows"
    /\ text \in Texts
    /\ stage = "input"
    /\ content = <<>>
    /\ word_count = 0
    /\ recleaned = <<>>
    /\ CallIdle
    /\ ChainIdle
    /\ RenderIdle

\* an HTML response whose extraction chain took text from a strategy and
\* returned it cleaned (lines 578, 601-611)
ExtractHtml ==
    /\ stage = "input"
    /\ LET res == _extract_html_content_static(_clean_text_content(text))
       IN /\ content' = res.content
          /\ word_count' = res.word_count
    /\ stage' = "html"
    /\ UNCHANGED <<engine, locals, counters, rendering, batch, threads, call, chain, text, recleaned>>

\* a JSON response whose parsed body dumps to text (lines 613-631)
ExtractJson ==
    /\ stage = "input"
    /\ IsJsonDump(text)
    /\ LET res == _extract_json_content(text)
       IN /\ content' = res.content
          /\ word_count' = res.word_count
    /\ stage' = "json"
    /\ UNCHANGED <<engine, locals, counters, rendering, batch, threads, call, chain, text, recleaned>>

\* a plain-text response whose body decodes to text (lines 635-650)
ExtractPlain ==
    /\ stage = "input"
    /\ LET res == _extract_plain_content(text)
       IN /\ content' = res.content
          /\ word_count' = res.word_count
    /\ stage' = "plain"
    /\ UNCHANGED <<engine, locals, counters, rendering, batch, threads, call, chain, text, recleaned>>

NextExtract ==
    \/ ExtractHtml
    \/ ExtractJson
    \/ ExtractPlain

SpecExtract == InitText /\ [][NextExtract]_vars

\* content = _clean_text_content(text)
CleanTextContent ==
    /\ stage = "input"
    /\ content' = _clean_text_content(text)
    /\ stage' = "cleaned"
    /\ UNCHANGED <<engine, locals, counters, rendering, batch, threads, call, chain, text, word_count, recleaned>>

\* recleaned = _clean_text_content(content)
CleanAgain ==
    /\ stage = "cleaned"
    /\ recleaned' = _clean_text_content(content)
    /\ stage' = "recleaned"
    /\ UNCHANGED <<engine, locals, counters, rendering, batch, threads, call, chain, text, word_count, content>>

NextClean ==
    \/ CleanTextContent
    \/ CleanAgain

SpecClean == InitText /\ [][NextClean]_vars

(***************************************************************************)
(* One function called on its own.                                         *)
(*   args: the arguments, and the fields of self the function reads        *)
(*   returned: what the call returned                                      *)
(*   stage: "input" before the call, "called" after it                     *)
(***************************************************************************)
\* an engine that is not fetching, and a call about to be made
InitCall ==
    /\ EngineInit
    /\ browser_profile = "chrome_windows"
    /\ text = <<>>
    /\ content = <<>>
    /\ word_count = 0
    /\ recleaned = <<>>
    /\ stage = "input"
    /\ returned = <<>>
    /\ ChainIdle
    /\ RenderIdle

\* self.retry_strategy (an unknown name included) and the attempt number
InitDelay ==
    /\ InitCall
    /\ args \in [strategy : RETRY_STRATEGIES \cup {"unknown"}, attempt : 0..MaxAttempt]

\* delay = self._calculate_retry_delay(attempt)
CalculateRetryDelay ==
    /\ stage = "input"
    /\ \E jitter \in JitterChoices(args.strategy, args.attempt) :
          returned' = [delay |-> _calculate_retry_delay(args.strategy, args.attempt, jitter),
                       jitter |-> jitter]
    /\ stage' = "called"
    /\ UNCHANGED <<engine, locals, counters, rendering, batch, threads, chain, args, text, content, word_count, recleaned>>

NextDelay ==
    \/ CalculateRetryDelay

SpecDelay == InitDelay /\ [][NextDelay]_vars

\* the decoded markup of an HTML response
InitClassify ==
    /\ InitCall
    /\ args \in Markups

\* needs_js = self._needs_javascript_rendering(raw_content)
NeedsJavascriptRendering ==
    /\ stage = "input"
    /\ returned' = [needs_js |-> _needs_javascript_rendering(args)]
    /\ stage' = "called"
    /\ UNCHANGED <<engine, locals, counters, rendering, batch, threads, chain, args, text, content, word_count, recleaned>>

NextClassify ==
    \/ NeedsJavascriptRendering

SpecClassify == InitClassify /\ [][NextClassify]_vars

(***************************************************************************)
(* _extract_content_with_2025_best_practices, one strategy at a time.      *)
(*   args: what each strategy does when it is called: Unavailable (its     *)
(*       library cannot be imported, or the document has no body element), *)
(*       Failed (it raises), or Yields(n), a text whose stripped length is *)
(*       n (0 for None or '')                                              *)
(*   method: the strategy that runs next, or "returned"                    *)
(*   called: the strategies called so far, in call order                   *)
(*   BeautifulSoup_bound: whether the function's local name BeautifulSoup  *)
(*       is bound; `from bs4 import BeautifulSoup` (line 712) makes the    *)
(*       name local to the whole function, and only that line binds it     *)
(*   returned: the strategy whose text was returned, and the text's length *)
(***************************************************************************)
\* `if content and len(content.strip()) > floor`
UsableText(outcome, floor) == outcome.status = "text" /\ outcome.length > floor

Yields(n) == [status |-> "text", length |-> n]
Failed == [status |-> "failed", length |-> 0]
Unavailable == [status |-> "unavailable", length |-> 0]
\* readability raising after line 712 has run
FailedAfterImport == [status |-> "failed_after_import", length |-> 0]

StrategyOutcomes ==
    [trafilatura_available : BOOLEAN,
     html2txt : {Failed} \cup {Yields(n) : n \in {0, 49, 50, 51, 100, 101}},
     extract : {Failed} \cup {Yields(n) : n \in {0, 50, 51}},
     readability : {Unavailable, Failed, FailedAfterImport, Yields(50), Yields(51)},
     selectors : {Failed, Yields(50), Yields(51)},
     body : {Unavailable, Failed, Yields(50), Yields(51)},
     document : {Yields(0), Yields(10)}]

InitChain ==
    /\ EngineInit
    /\ browser_profile = "chrome_windows"
    /\ TextIdle
    /\ RenderIdle
    /\ returned = <<>>
    /\ args \in {a \in StrategyOutcomes : a.body = Unavailable => a.document = Yields(0)}
    /\ method = "html2txt"
    /\ called = <<>>
    /\ BeautifulSoup_bound = FALSE

\* `return self._clean_text_content(...)` of strategy source, or the fixed
\* text of line 771
Return(source, length) ==
    /\ returned' = [source |-> source, length |-> length]
    /\ method' = "returned"
    /\ stage' = "called"

\* the chain goes on to strategy next
Advance(next) ==
    /\ method' = next
    /\ UNCHANGED <<returned, stage>>

\* import trafilatura; trafilatura.html2txt (lines 683-693)
TryHtml2txt ==
    /\ method = "html2txt"
    /\ IF ~args.trafilatura_available
       THEN /\ Advance("readability")
            /\ UNCHANGED called
       ELSE /\ called' = Append(called, "html2txt")
            /\ IF UsableText(args.html2txt, 100)
               THEN Return("html2txt", args.html2txt.length)
               ELSE Advance("extract")
    /\ UNCHANGED BeautifulSoup_bound
    /\ UNCHANGED <<engine, locals, counters, rendering, batch, threads, text, content, word_count, recleaned, args>>

\* trafilatura.extract(favor_recall=True) (lines 695-703)
TryExtract ==
    /\ method = "extract"
    /\ called' = Append(called, "extract")
    /\ IF UsableText(args.extract, 50)
       THEN Return("extract", args.extract.length)
       ELSE Advance("readability")
    /\ UNCHANGED BeautifulSoup_bound
    /\ UNCHANGED <<engine, locals, counters, rendering, batch, threads, text, content, word_count, recleaned, args>>

\* readability Document(html_content).summary() (lines 705-722)
TryReadability ==
    /\ method = "readability"
    /\ IF args.readability = Unavailable
       THEN /\ Advance("selectors")
            /\ UNCHANGED <<called, BeautifulSoup_bound>>
       ELSE /\ called' = Append(called, "readability")
            /\ BeautifulSoup_bound' = (args.readability # Failed)
            /\ IF UsableText(args.readability, 50)
               THEN Return("readability", args.readability.length)
               ELSE Advance("selectors")
    /\ UNCHANGED <<engine, locals, counters, rendering, batch, threads, text, content, word_count, recleaned, args>>

\* BeautifulSoup(html_content, 'html.parser'), an UnboundLocalError when the
\* local name was never bound, then the content selectors in priority order
\* (lines 724-749, 769-771)
TrySelectors ==
    /\ method = "selectors"
    /\ IF ~BeautifulSoup_bound
       THEN /\ Return("extraction_failed", 25)
            /\ UNCHANGED called
       ELSE /\ called' = Append(called, "selectors")
            /\ IF args.selectors = Failed
               THEN Return("extraction_failed", 25)
               ELSE IF UsableText(args.selectors, 50)
               THEN Return("selectors", args.selectors.length)
               ELSE Advance("body")
    /\ UNCHANGED BeautifulSoup_bound
    /\ UNCHANGED <<engine, locals, counters, rendering, batch, threads, text, content, word_count, recleaned, args>>

\* the text of the body element (lines 751-763, 769-771)
TryBody ==
    /\ method = "body"
    /\ IF args.body = Unavailable
       THEN /\ Advance("document")
            /\ UNCHANGED called
       ELSE /\ called' = Append(called, "body")
            /\ IF args.body = Failed
               THEN Return("extraction_failed", 25)
               ELSE IF UsableText(args.body, 50)
               THEN Return("body", args.body.length)
               ELSE Advance("document")
    /\ UNCHANGED BeautifulSoup_bound
    /\ UNCHANGED <<engine, locals, counters, rendering, batch, threads, text, content, word_count, recleaned, args>>

\* the text of the whole document, whatever its length (lines 765-768)
TryDocument ==
    /\ method = "document"
    /\ called' = Append(called, "document")
    /\ Return("document", args.document.length)
    /\ UNCHANGED BeautifulSoup_bound
    /\ UNCHANGED <<engine, locals, counters, rendering, batch, threads, text, content, word_count, recleaned, args>>

NextChain ==
    \/ TryHtml2txt
    \/ TryExtract
    \/ TryReadability
    \/ TrySelectors
    \/ TryBody
    \/ TryDocument

SpecChain == InitChain /\ [][NextChain]_vars

(***************************************************************************)
(* web_fetch_tool (core.py) over fetch_web_content.                        *)
(*   args: the url list and extract_links                                  *)
(*   results, successful_fetches: the locals of the loop                   *)
(*   returned: the envelope handed to json.dumps                           *)
(***************************************************************************)
MAX_URLS_PER_REQUEST == 50

\* everything fetch_content(u) can end with: the ValueError of line 431, what
\* the try body makes of a response, line 531 after a non-retriable transport
\* error, line 529 after the last retriable one
FetchContentResults(u) ==
    IF ~_is_valid_url(u) THEN {Raised("ValueError", <<"Invalid URL format">>)}
    ELSE {ProcessResponse(r, ro) : r \in Responses, ro \in RenderOutcomes}
         \cup {Raised("Exception", <<"Unexpected error in fetch_content">>)}
         \cup {Raised("Exception", <<"Failed to fetch URL after", "5", "attempts">> \o ex.msg) :
                  ex \in TransportErrors}

\* fetch_web_content wrapping every exception, ValueError included
RewrapEveryException(res) ==
    IF res.status = "raised"
    THEN Raised("Exception", <<"Failed to fetch content:">> \o res.msg)
    ELSE res

\* the except clauses of fetch_web_content (fetch_api.py lines 930-935)
RewrapException(res) ==
    IF res.status = "raised" /\ res.exc # "ValueError"
    THEN Raised("Exception", <<"Failed to fetch content:">> \o res.msg)
    ELSE res

\* the record web_fetch_tool appends for one URL (core.py lines 83-141); the
\* message prefix of line 134 is written in ASCII
ResultRecord(u, out, extract_links) ==
    IF out.status = "raised" /\ out.exc = "ValueError"
    THEN [url |-> u, title |-> "", description |-> "", content |-> "", content_type |-> "",
          word_count |-> 0, links |-> <<>>, status |-> "error", error |-> out.msg,
          error_type |-> "client_error", error_category |-> "validation"]
    ELSE IF out.status = "raised"
    THEN [url |-> u, title |-> "", description |-> "", content |-> "", content_type |-> "",
          word_count |-> 0, links |-> <<>>, status |-> "error",
          error |-> <<"Khong the truy cap URL:">> \o out.msg,
          error_type |-> "network_error", error_category |-> "connection"]
    ELSE [url |-> u, title |-> "title", description |-> "description", content |-> "content",
          content_type |-> out.content_type, word_count |-> 1,
          links |-> IF extract_links /\ out.content_type = "text/html"
                    THEN <<"link">> ELSE <<>>,
          status |-> out.status]

\* the envelope reporting success whatever was fetched
PrepareResponseAlwaysSuccess(urls, recs, n) ==
    [total_urls |-> Len(urls), successful_fetches |-> n, results |-> recs,
     status |-> "success"]

\* response (core.py lines 144-157)
PrepareResponse(urls, recs, n) ==
    [total_urls |-> Len(urls), successful_fetches |-> n, results |-> recs,
     status |-> IF n > 0 THEN "success" ELSE "error"]

ToolUrls == {Url("https", "a.com", "/p", FALSE), Url("ftp", "a.com", "/p", FALSE)}

InitTool ==
    /\ InitCall
    /\ args \in [url : UNION {[1..k -> ToolUrls] : k \in 0..MaxUrls},
                 extract_links : BOOLEAN]

\* core.py lines 49-76
ValidateInput ==
    /\ stage = "input"
    /\ IF args.url = <<>>
       THEN /\ returned' = [total_urls |-> 0, results |-> <<>>, status |-> "error"]
            /\ stage' = "called"
       ELSE IF Len(args.url) > MAX_URLS_PER_REQUEST
       THEN /\ returned' = [total_urls |-> Len(args.url), results |-> <<>>, status |-> "error"]
            /\ stage' = "called"
       ELSE /\ stage' = "loop"
            /\ UNCHANGED returned
    /\ UNCHANGED <<engine, locals, counters, rendering, batch, threads, chain, args,
                   text, content, word_count, recleaned>>

\* one pass of the loop over urls (core.py lines 78-141), fetch_web_content
\* included
ProcessUrl ==
    /\ stage = "loop"
    /\ Len(results) < Len(args.url)
    /\ LET url_to_fetch == args.url[Len(results) + 1]
       IN \E res \in FetchContentResults(url_to_fetch) :
             LET out == RewrapException(res)
             IN /\ results' = Append(results,
                                     ResultRecord(url_to_fetch, out, args.extract_links))
                /\ successful_fetches' =
                      IF out.status = "raised" THEN successful_fetches
                      ELSE successful_fetches + 1
    /\ UNCHANGED <<engine, locals, counters, rendering, api_requests, threads, chain,
                   call, texts>>

\* core.py lines 143-159
ReturnResponse ==
    /\ stage = "loop"
    /\ Len(results) = Len(args.url)
    /\ returned' = PrepareResponse(args.url, results, successful_fetches)
    /\ stage' = "called"
    /\ UNCHANGED <<engine, locals, counters, rendering, batch, threads, chain, args,
                   text, content, word_count, recleaned>>

NextTool == ValidateInput \/ ProcessUrl \/ ReturnResponse

SpecTool == InitTool /\ [][NextTool]_vars

(***************************************************************************)
(* web_search_tool (src/tools/mcp_web_search).  args is the call's query   *)
(* and language, api_requests the params of the requests.get calls made    *)
(* so far, results the all_results list of GoogleCustomSearchAPI.search    *)
(* (an item is written as its index in Google's result list), returned     *)
(* the envelope.                                                           *)
(***************************************************************************)
DEFAULT_NUM_RESULTS == 15
MAX_RESULTS_PER_REQUEST == 10
MAX_API_REQUESTS == 5

\* the default of the parameter language of GoogleCustomSearchAPI.search
\* (google_api.py line 23)
search_default_language == "en"

\* google_api.py line 39
requests_needed(num_results) ==
    Min((num_results + MAX_RESULTS_PER_REQUEST - 1) \div MAX_RESULTS_PER_REQUEST,
        MAX_API_REQUESTS)

\* google_api.py line 43
current_limit(num_results, all_results) ==
    Min(MAX_RESULTS_PER_REQUEST, num_results - Len(all_results))

\* the params of one request, None values removed (google_api.py lines 48-58)
Params(query, limit, start_index, language) ==
    IF language # "en"
    THEN [q |-> query, num |-> limit, start |-> start_index, lr |-> <<"lang_", language>>]
    ELSE [q |-> query, num |-> limit, start |-> start_index]

\* what one requests.get can bring: a page of 0 to num items, or a failure
\* (transport or HTTP error, or an error member in the JSON)
ApiOutcomes(limit) ==
    [kind : {"items"}, count : 0..limit]
        \union [kind : {"request_exception", "api_error"}, count : {0}]

ErrorEnvelope(query) ==
    [query |-> query, total_results |-> 0, results |-> <<>>, status |-> "error"]

\* core.py lines 70-98
SearchResponse(query, raw_results) ==
    [query |-> query, total_results |-> Len(raw_results), results |-> raw_results,
     status |-> IF raw_results # <<>> THEN "success" ELSE "no_results"]

Queries == {"", "css", "react"}
Languages == {"en", "vi", "ja"}

InitSearch ==
    /\ InitCall
    /\ args \in [query : Queries, language : Languages]

\* core.py lines 48-63
ValidateQuery ==
    /\ stage = "input"
    /\ IF args.query = ""
       THEN /\ returned' = ErrorEnvelope(args.query)
            /\ stage' = "called"
       ELSE /\ stage' = "searching"
            /\ UNCHANGED returned
    /\ UNCHANGED <<engine, locals, counters, rendering, batch, threads, chain, args,
                   text, content, word_count, recleaned>>

\* one pass of the loop of GoogleCustomSearchAPI.search (google_api.py lines
\* 41-88).  web_search_tool calls search_google_api(query, num_results)
\* (core.py line 67) and search_google_api calls
\* api_client.search(query, num_results) (google_api.py line 118): neither
\* passes a language, so that search runs with its default.
SendRequest ==
    /\ stage = "searching"
    /\ Len(api_requests) < requests_needed(DEFAULT_NUM_RESULTS)
    /\ LET request_num == Len(api_requests)
           start_index == request_num * MAX_RESULTS_PER_REQUEST + 1
           limit == current_limit(DEFAULT_NUM_RESULTS, results)
       IN /\ limit > 0
          /\ api_requests' = Append(api_requests,
                                    Params(args.query, limit, start_index,
                                           search_default_language))
          /\ \E outcome \in ApiOutcomes(limit) :
                IF outcome.kind = "items"
                THEN /\ results' = results \o [j \in 1..outcome.count |-> start_index + j - 1]
                     /\ stage' = IF outcome.count < limit THEN "searched" ELSE "searching"
                     /\ UNCHANGED returned
                ELSE /\ returned' = ErrorEnvelope(args.query)
                     /\ stage' = "called"
                     /\ UNCHANGED results
    /\ UNCHANGED <<engine, locals, counters, rendering, successful_fetches, threads,
                   chain, args, text, content, word_count, recleaned>>

\* the loop is over: all_results[:num_results] goes back to web_search_tool,
\* which formats and returns it (google_api.py line 90, core.py lines 70-98)
FormatResults ==
    /\ \/ stage = "searched"
       \/ /\ stage = "searching"
          /\ \/ Len(api_requests) = requests_needed(DEFAULT_NUM_RESULTS)
             \/ current_limit(DEFAULT_NUM_RESULTS, results) <= 0
    /\ returned' = SearchResponse(args.query,
                                  SubSeq(results, 1, Min(Len(results), DEFAULT_NUM_RESULTS)))
    /\ stage' = "called"
    /\ UNCHANGED <<engine, locals, counters, rendering, batch, threads, chain, args,
                   text, content, word_count, recleaned>>

NextSearch == ValidateQuery \/ SendRequest \/ FormatResults

SpecSearch == InitSearch /\ [][NextSearch]_vars

(***************************************************************************)
(* One WebContentFetcher shared by two threads that each call              *)
(* fetch_content.  The code takes no lock, so the threads interleave       *)
(* between any two statements that read or write session_pool or           *)
(* browser_profile.  threads[t] holds the locals of thread t:              *)
(*   pc: "attempt" (head of the retry loop, before line 97), "headers",    *)
(*       "user_agent", "insert", "return" (before lines 99, 103, 106,      *)
(*       109), "get" (domain_session.get is in flight), "clear",           *)
(*       "assign" (before lines 503, 508), "sleep", "done"                 *)
(*   new_session, domain_session: the locals of _get_domain_session and    *)
(*       _fetch_with_requests                                              *)
(*   dropped: session_pool.clear() of another thread removed the session   *)
(*       this thread's request is using                                    *)
(*   raised: the exception that ended the call                             *)
(***************************************************************************)
SharedCalls == 2

NewThread(u) ==
    [pc |-> "attempt", url |-> u, attempt |-> 0, new_session |-> NoSession,
     domain_session |-> NoSession, dropped |-> FALSE, new_profile |-> "none",
     delay |-> 0, raised |-> "none"]

\* a caller's thread enters fetch_content(u) with a valid URL (lines 418-434)
CallFetchContent(u) ==
    /\ Len(threads) < SharedCalls
    /\ threads' = Append(threads, NewThread(u))
    /\ fetches' = fetches + 1
    /\ UNCHANGED <<engine, locals, transport_calls, sleeps, failures, texts, call,
                   chain, rendering, batch>>

\* `if domain not in self.session_pool` (line 97)
TestDomain(t) ==
    /\ threads[t].pc = "attempt"
    /\ threads' = [threads EXCEPT ![t].pc =
                      IF threads[t].url.netloc \in DOMAIN session_pool
                      THEN "return" ELSE "headers"]
    /\ UNCHANGED <<engine, locals, counters, texts, call, chain, rendering, batch>>

\* lines 98-102: the new session takes the headers of self.browser_profile
ReadHeaders(t) ==
    /\ threads[t].pc = "headers"
    /\ threads' = [threads EXCEPT
                      ![t].pc = "user_agent",
                      ![t].new_session =
                          ClientState(ProfileHeaders(browser_profile), "gzip, deflate",
                                      "python-requests", {})]
    /\ UNCHANGED <<engine, locals, counters, texts, call, chain, rendering, batch>>

\* lines 103-105: the new session takes the user agent of self.browser_profile
ReadUserAgent(t) ==
    /\ threads[t].pc = "user_agent"
    /\ threads' = [threads EXCEPT
                      ![t].pc = "insert",
                      ![t].new_session.user_agent = ProfileUserAgent(browser_profile)]
    /\ UNCHANGED <<engine, locals, counters, texts, call, chain, rendering, batch>>

\* self.session_pool[domain] = new_session (line 106)
InsertSession(t) ==
    /\ threads[t].pc = "insert"
    /\ session_pool' = (threads[t].url.netloc :> threads[t].new_session) @@ session_pool
    /\ threads' = [threads EXCEPT ![t].pc = "return"]
    /\ UNCHANGED <<browser_profile, current_session_domain, retry_strategy,
                   retry_attempt_history, session, httpx_client, js_session,
                   locals, counters, texts, call, chain, rendering, batch>>

\* lines 109-110 and 412-413: self.session_pool[domain] raises KeyError when
\* the entry is gone, and KeyError is not caught by the except clause of
\* line 484
ReturnSession(t) ==
    /\ threads[t].pc = "return"
    /\ current_session_domain' = threads[t].url.netloc
    /\ threads' =
          IF threads[t].url.netloc \in DOMAIN session_pool
          THEN [threads EXCEPT ![t].pc = "get",
                               ![t].domain_session = session_pool[threads[t].url.netloc],
                               ![t].dropped = FALSE]
          ELSE [threads EXCEPT ![t].pc = "done", ![t].raised = "KeyError"]
    /\ UNCHANGED <<browser_profile, session_pool, retry_strategy, retry_attempt_history,
                   session, httpx_client, js_session,
                   locals, counters, texts, call, chain, rendering, batch>>

\* domain_session.get returns and the response is extracted (lines 413-483)
TransportReturns(t) ==
    /\ threads[t].pc = "get"
    /\ threads' = [threads EXCEPT ![t].pc = "done"]
    /\ UNCHANGED <<engine, locals, counters, texts, call, chain, rendering, batch>>

\* domain_session.get raises ex: lines 484-501, or the way out of the loop
TransportRaises(t, ex) ==
    /\ threads[t].pc = "get"
    /\ failures < MaxSharedFailures
    /\ failures' = failures + 1
    /\ IF ExceptBranch(threads[t].attempt, ex) = "retry"
       THEN \E np \in get_random_browser_profile :
            \E jitter \in JitterChoices(retry_strategy, threads[t].attempt) :
               LET d == _calculate_retry_delay(retry_strategy, threads[t].attempt, jitter)
               IN /\ retry_attempt_history' =
                        Append(retry_attempt_history,
                               RetryInfo(threads[t].attempt, ex, d, retry_strategy))
                  /\ threads' = [threads EXCEPT ![t].pc = "clear",
                                                ![t].new_profile = np,
                                                ![t].delay = d]
       ELSE /\ threads' = [threads EXCEPT ![t].pc = "done", ![t].raised = "Exception"]
            /\ UNCHANGED retry_attempt_history
    /\ UNCHANGED <<browser_profile, session_pool, current_session_domain, retry_strategy,
                   session, httpx_client, js_session, locals,
                   transport_calls, sleeps, fetches, texts, call, chain, rendering, batch>>

\* self.session_pool.clear() (line 503); a thread whose request is in flight
\* on a session of the pool goes on with that session
ClearSessions(t) ==
    /\ threads[t].pc = "clear"
    /\ session_pool' = SessionPoolClear(session_pool)
    /\ threads' =
          [i \in 1..Len(threads) |->
              IF i = t THEN [threads[i] EXCEPT !.pc = "assign"]
              ELSE IF /\ threads[i].pc = "get"
                      /\ threads[i].url.netloc \in DOMAIN session_pool
                      /\ session_pool[threads[i].url.netloc] = threads[i].domain_session
                   THEN [threads[i] EXCEPT !.dropped = TRUE]
                   ELSE threads[i]]
    /\ UNCHANGED <<browser_profile, current_session_domain, retry_strategy,
                   retry_attempt_history, session, httpx_client, js_session,
                   locals, counters, texts, call, chain, rendering, batch>>

\* lines 508-520: the fallback session and the httpx client, which no other
\* statement of fetch_content reads, and self.browser_profile = new_profile
AssignNewProfile(t) ==
    /\ threads[t].pc = "assign"
    /\ session' = RotatedSession(session, threads[t].new_profile)
    /\ httpx_client' = RotatedHttpxClient(httpx_client, threads[t].new_profile)
    /\ browser_profile' = AssignProfile(browser_profile, threads[t].new_profile)
    /\ threads' = [threads EXCEPT ![t].pc = "sleep"]
    /\ UNCHANGED <<session_pool, current_session_domain, retry_strategy,
                   retry_attempt_history, js_session,
                   locals, counters, texts, call, chain, rendering, batch>>

\* time.sleep(delay); continue (lines 524-525)
SleepAndRetry(t) ==
    /\ threads[t].pc = "sleep"
    /\ threads' = [threads EXCEPT ![t].pc = "attempt",
                                  ![t].attempt = @ + 1,
                                  ![t].new_session = NoSession,
                                  ![t].domain_session = NoSession,
                                  ![t].dropped = FALSE]
    /\ UNCHANGED <<engine, locals, counters, texts, call, chain, rendering, batch>>

NextShared ==
    \/ \E u \in ValidUrls : CallFetchContent(u)
    \/ \E t \in 1..Len(threads) : TestDomain(t)
    \/ \E t \in 1..Len(threads) : ReadHeaders(t)
    \/ \E t \in 1..Len(threads) : ReadUserAgent(t)
    \/ \E t \in 1..Len(threads) : InsertSession(t)
    \/ \E t \in 1..Len(threads) : ReturnSession(t)
    \/ \E t \in 1..Len(threads) : TransportReturns(t)
    \/ \E t \in 1..Len(threads) : \E ex \in ReusedEngineErrors : TransportRaises(t, ex)
    \/ \E t \in 1..Len(threads) : ClearSessions(t)
    \/ \E t \in 1..Len(threads) : AssignNewProfile(t)
    \/ \E t \in 1..Len(threads) : SleepAndRetry(t)

SpecShared == Init /\ [][NextShared]_vars

(***************************************************************************)
(* _fetch_with_requests called on one engine without any rotation.         *)
(*   args: the URL requested                                               *)
(*   returned: the session _get_domain_session returned for it             *)
(***************************************************************************)
InitSessions == Init

\* _fetch_with_requests(u): the domain session is looked up or created, the
\* request goes through it and its response sets a cookie (lines 400-416)
FetchWithRequests(u) ==
    /\ transport_calls < MaxRequests
    /\ transport_calls' = transport_calls + 1
    /\ args' = u
    /\ LET pool == _get_domain_session(session_pool, u, browser_profile)
       IN /\ returned' = pool[u.netloc]
          /\ session_pool' = StoreCookieOf(pool, u.netloc, u)
    /\ current_session_domain' = u.netloc
    /\ stage' = "called"
    /\ UNCHANGED <<browser_profile, retry_strategy, retry_attempt_history, session,
                   httpx_client, js_session, locals, sleeps, fetches, failures,
                   text, content, word_count, recleaned, chain, rendering, batch, threads>>

NextSessions == \E u \in SessionUrls : FetchWithRequests(u)

SpecSessions == InitSessions /\ [][NextSessions]_vars

(***************************************************************************)
(* _extract_json_content, called on its own.                               *)
(*   args: the structure response.json() returned                          *)
(*   text: its json.dumps                                                  *)
(*   content, word_count: the fields of the result                         *)
(***************************************************************************)
InitJson ==
    /\ EngineInit
    /\ browser_profile = "chrome_windows"
    /\ TextIdle
    /\ ChainIdle
    /\ RenderIdle
    /\ returned = <<>>
    /\ args \in JsonValues

ExtractJsonContent ==
    /\ stage = "none"
    /\ LET dumped == json_dumps(args)
           res == _extract_json_content(dumped)
       IN /\ text' = dumped
          /\ content' = res.content
          /\ word_count' = res.word_count
    /\ stage' = "json"
    /\ UNCHANGED <<engine, locals, counters, rendering, batch, threads, call, chain, recleaned>>

NextJson == ExtractJsonContent

SpecJson == InitJson /\ [][NextJson]_vars

(***************************************************************************)
(* _extract_links, called on its own.                                      *)
(*   args: the <a> elements of the document in document order, and the     *)
(*       page URL                                                          *)
(*   returned: the list of links                                           *)
(***************************************************************************)
InitLinks ==
    /\ InitCall
    /\ args \in [soup : Soups, base_url : PageUrls]

ExtractLinks ==
    /\ stage = "input"
    /\ returned' = _extract_links(args.soup, args.base_url)
    /\ stage' = "called"
    /\ UNCHANGED <<engine, locals, counters, rendering, batch, threads, chain, args, text, content, word_count, recleaned>>

NextLinks == ExtractLinks

SpecLinks == InitLinks /\ [][NextLinks]_vars

(***************************************************************************)
(* _extract_links on long pages: a block of anchors that yield no link,    *)
(* followed by anchors that each yield one.                                *)
(***************************************************************************)
MAX_LINKS_EXTRACT == 300

\* the n-th of the anchors that yield a link: <a href="/x"> with a text of
\* its own
NumberedAnchor(n) ==
    Anchor(TRUE, <<"/", "x">>, <<Run("a", 1 + (n \div 100)), Run("b", 1 + (n % 100))>>)

\* anchors that yield no link: a mailto: href, no href, a blank text
LinklessAnchors ==
    {Anchor(TRUE, <<"mailto", ":", "a@b.c">>, Letters(4)),
     Anchor(FALSE, <<>>, Letters(3)),
     Anchor(TRUE, <<"/", "x">>, <<Run(" ", 2), Run("\n", 1)>>)}

LeadingCounts == {0, 1, 99, 100, 101}
NumberedCounts == {0, 1, 2, 100, 101, 300, 301}

LongSoup(leading, k, n) ==
    [i \in 1..(k + n) |-> IF i <= k THEN leading ELSE NumberedAnchor(i - k)]

LongSoups ==
    {LongSoup(leading, k, n) : leading \in LinklessAnchors, k \in LeadingCounts,
                               n \in NumberedCounts}

InitLongPage ==
    /\ InitCall
    /\ args \in [soup : LongSoups, base_url : PageUrls]

SpecLongPage == InitLongPage /\ [][NextLinks]_vars

(***************************************************************************)
(* Claims                                                                  *)
(***************************************************************************)
\* what the claims call a URL failing validation
FailsSchemeHostValidation(u) == u.scheme \notin {"http", "https"} \/ u.netloc = ""

\* a fetch_content call has ended by raising
RaisedAtIdle == pc = "idle" /\ result.status = "raised"

\* the transport failure that ended the fetch
GaveUpOnTransport == RaisedAtIdle /\ e # NoError

\* C1: a URL whose scheme is not http/https or whose host is empty makes
\* fetch_content raise ValueError("Invalid URL format") before any transport
\* attempt: no HTTP request, no domain session created, no retry-history entry,
\* identity unchanged.
C1_InvalidUrlRaisesBeforeTransport ==
    /\ [](pc = "idle" /\ fetches > 0 /\ FailsSchemeHostValidation(url)
            => /\ result = Raised("ValueError", <<"Invalid URL format">>)
               /\ transport_calls = 0
               /\ sleeps = 0)
    /\ [][(pc = "idle" /\ fetches' = fetches + 1 /\ FailsSchemeHostValidation(url'))
            => /\ pc' = "idle"
               /\ session_pool' = session_pool
               /\ retry_attempt_history' = retry_attempt_history
               /\ browser_profile' = browser_profile]_vars

\* an invalid URL was rejected on an engine that holds a session and a
\* retry history from an earlier fetch
C1_Witness ==
    /\ pc = "idle"
    /\ fetches = 2
    /\ url.scheme = "ftp"
    /\ result = Raised("ValueError", <<"Invalid URL format">>)
    /\ session_pool # EmptyPool
    /\ Len(retry_attempt_history) > 0

\* C2: after a retriable transport failure that is followed by another
\* attempt, session_pool is empty when that attempt begins (and while the
\* backoff sleep before it lasts).
C2_PoolEmptyBeforeNextAttempt ==
    (pc = "sleep" \/ (pc = "attempt" /\ attempt > 0))
        => Cardinality(DOMAIN session_pool) = 0

\* the third attempt of an engine's second fetch is about to begin
C2_Witness ==
    /\ pc = "attempt"
    /\ attempt = 2
    /\ fetches = 2
    /\ e = HTTP429

\* C3: every session cached in session_pool carries the headers and the user
\* agent of the engine's current browser_profile.
C3_PoolSessionsCarryCurrentIdentity ==
    \A d \in DOMAIN session_pool :
        /\ session_pool[d].headers = ProfileHeaders(browser_profile)
        /\ session_pool[d].user_agent = ProfileUserAgent(browser_profile)

\* a reused engine holds sessions for two domains after rotations
C3_Witness ==
    /\ Cardinality(DOMAIN session_pool) = 2
    /\ Len(retry_attempt_history) >= 2
    /\ fetches = 2

\* C4: one fetch_content call makes at most MAX_RETRY_ATTEMPTS transport
\* attempts; when it ends on a retriable failure it has made exactly
\* MAX_RETRY_ATTEMPTS attempts and MAX_RETRY_ATTEMPTS - 1 sleeps and raises
\* Exception; a non-retriable failure ends it on that attempt, with no sleep
\* after it.
C4_AttemptBudget ==
    /\ transport_calls <= MAX_RETRY_ATTEMPTS
    /\ pc = "attempt" => sleeps = transport_calls
    /\ transport_calls > 0 /\ pc # "attempt" => sleeps = transport_calls - 1
    /\ (GaveUpOnTransport /\ _is_retriable_error(e, NoResponse))
          => /\ transport_calls = MAX_RETRY_ATTEMPTS
             /\ sleeps = MAX_RETRY_ATTEMPTS - 1
             /\ result.exc = "Exception"
             /\ Contains(result.msg, <<"Failed to fetch URL after", "5", "attempts">>)
    /\ (pc = "idle" /\ e # NoError /\ ~_is_retriable_error(e, NoResponse))
          => /\ result.status = "raised"
             /\ result.exc = "Exception"
             /\ transport_calls = attempt + 1
             /\ sleeps = attempt

\* the budget was exhausted by retriable failures
C4_Witness ==
    /\ GaveUpOnTransport
    /\ e = HTTP429
    /\ transport_calls = MAX_RETRY_ATTEMPTS
    /\ sleeps = MAX_RETRY_ATTEMPTS - 1

\* the delay min(60, base * 2^k) of the claim, in milliseconds
ExponentialDelay(k) == Min(MAX_DELAY_SECONDS * 1000, RETRY_DELAY * 1000 * Pow2(k))

\* C5 as claimed: when the first MAX_RETRY_ATTEMPTS - 1 attempts of a fetch
\* failed with a retriable status and the last one succeeds, under
\* exponential_backoff retry_attempt_history holds exactly
\* MAX_RETRY_ATTEMPTS - 1 entries, with the delays min(60, base * 2^k),
\* k = 0 .. MAX_RETRY_ATTEMPTS - 2.
C5_HistoryHoldsExactlyTheRetries ==
    (/\ pc = "idle"
     /\ result.status \in {"success", "success_js_rendered"}
     /\ attempt = MAX_RETRY_ATTEMPTS - 1
     /\ retry_strategy = "exponential_backoff")
       => /\ Len(retry_attempt_history) = MAX_RETRY_ATTEMPTS - 1
          /\ \A k \in 0..(MAX_RETRY_ATTEMPTS - 2) :
                retry_attempt_history[k + 1].delay = ExponentialDelay(k)

\* C5 as amended: a retriable-status failure before the last attempt never
\* ends the fetch, and when the first MAX_RETRY_ATTEMPTS - 1 attempts failed
\* that way and the last one succeeds, under exponential_backoff the fetch has
\* appended exactly MAX_RETRY_ATTEMPTS - 1 history entries with the
\* non-decreasing delays min(60, base * 2^k), k = 0 .. MAX_RETRY_ATTEMPTS - 2;
\* they are the last entries of the history, and the whole history only on an
\* engine whose first fetch this is.
C5_RetriesThenSuccess ==
    /\ (e.status_code \in RETRIABLE_STATUS_CODES /\ transport_calls < MAX_RETRY_ATTEMPTS)
          => pc # "idle"
    /\ (/\ pc = "idle"
        /\ result.status \in {"success", "success_js_rendered"}
        /\ attempt = MAX_RETRY_ATTEMPTS - 1
        /\ retry_strategy = "exponential_backoff")
          => LET n == Len(retry_attempt_history)
                 first == n - (MAX_RETRY_ATTEMPTS - 1)
             IN /\ first >= 0
                /\ fetches = 1 => first = 0
                /\ \A k \in 0..(MAX_RETRY_ATTEMPTS - 2) :
                      /\ retry_attempt_history[first + k + 1].attempt = k + 1
                      /\ retry_attempt_history[first + k + 1].delay = ExponentialDelay(k)
                /\ \A k \in 1..(MAX_RETRY_ATTEMPTS - 2) :
                      retry_attempt_history[first + k].delay
                          <= retry_attempt_history[first + k + 1].delay

\* the first fetch of an engine succeeded on its last attempt
C5_Witness ==
    /\ pc = "idle"
    /\ fetches = 1
    /\ result.status = "success"
    /\ attempt = MAX_RETRY_ATTEMPTS - 1
    /\ Len(retry_attempt_history) = MAX_RETRY_ATTEMPTS - 1
    /\ retry_attempt_history[MAX_RETRY_ATTEMPTS - 1].error_type = "HTTPError"

\* C6: whenever fetch_content gives up on a transport failure (non-retriable
\* error, or budget exhausted), the message of the exception it raises
\* contains the message of the last transport exception.
C6_GiveUpCarriesLastError ==
    (GaveUpOnTransport /\ result.exc = "Exception") => Contains(result.msg, e.msg)

\* the exception categories the claim names: connection, timeout, TLS,
\* too-many-redirects and decoding errors
ClaimRetriableCategories ==
    {"ConnectionError", "Timeout", "ConnectTimeout", "ReadTimeout", "SSLError",
     "TooManyRedirects", "ChunkedEncodingError", "ContentDecodingError"}

\* the three signals of the claim
ClaimRetriable(ex) ==
    \/ ex.status_code \in RETRIABLE_STATUS_CODES
    \/ ex.type \in ClaimRetriableCategories
    \/ \E pattern \in retriable_patterns : Contains(Lower(ex.msg), <<pattern>>)

\* C7: fetch_content retries a transport failure iff its status code is in
\* the retriable set, or its exception category is connection, timeout, TLS,
\* too-many-redirects or decoding, or its message contains a retry keyword: a
\* failure that is retried has one of the signals, and a failure that ends the
\* fetch before the budget is used up has none.
C7_RetriedIffSignal ==
    /\ pc = "sleep" => ClaimRetriable(e)
    /\ (GaveUpOnTransport /\ transport_calls < MAX_RETRY_ATTEMPTS) => ~ClaimRetriable(e)

\* a client state carries identity p and no cookie
CarriesIdentity(c, p) ==
    /\ c.headers = ProfileHeaders(p)
    /\ c.user_agent = ProfileUserAgent(p)
    /\ c.cookies = {}

\* C8 as claimed: every retriable transport failure, the one on the last
\* attempt of the budget included, is followed by a rotation: the drawn
\* identity is the current one and session_pool is empty.
C8_EveryRetriableFailureRotates ==
    (e # NoError /\ _is_retriable_error(e, NoResponse) /\ pc \in {"sleep", "idle"})
        => /\ session_pool = EmptyPool
           /\ browser_profile = new_profile

\* C8 as amended: a retriable transport failure on an attempt that is not the
\* last of the budget is retried after a full rotation (an identity drawn from
\* the catalogue is the current one and the one of the fallback session and of
\* the httpx client, session_pool is empty); a retriable failure on the last
\* attempt ends the fetch without rotation: identity and cached session stay.
C8_RetriedFailureRotates ==
    /\ [](pc = "sleep"
            => /\ e # NoError
               /\ _is_retriable_error(e, NoResponse)
               /\ transport_calls < MAX_RETRY_ATTEMPTS
               /\ new_profile \in BROWSER_PROFILES
               /\ browser_profile = new_profile
               /\ session_pool = EmptyPool
               /\ CarriesIdentity(session, new_profile)
               /\ CarriesIdentity(httpx_client, new_profile))
    /\ []((e # NoError /\ _is_retriable_error(e, NoResponse)
             /\ transport_calls < MAX_RETRY_ATTEMPTS)
            => pc \in {"sleep", "attempt"})
    /\ []((GaveUpOnTransport /\ _is_retriable_error(e, NoResponse))
            => /\ transport_calls = MAX_RETRY_ATTEMPTS
               /\ url.netloc \in DOMAIN session_pool)
    /\ [][(pc = "attempt" /\ attempt = MAX_RETRY_ATTEMPTS - 1)
            => /\ browser_profile' = browser_profile
               /\ session' = session
               /\ httpx_client' = httpx_client]_vars

\* a rotation has just completed on the fourth attempt
C8_Witness ==
    /\ pc = "sleep"
    /\ attempt = MAX_RETRY_ATTEMPTS - 2
    /\ e = HTTP429
    /\ session_pool = EmptyPool

\* C9: once a rotation has completed, the domain sessions, the fallback
\* session, the httpx client and js_session all carry the new identity's
\* headers and user agent and hold no cookie.
C9_RotationReachesEveryClient ==
    pc = "sleep"
        => /\ \A d \in DOMAIN session_pool : CarriesIdentity(session_pool[d], browser_profile)
           /\ CarriesIdentity(session, browser_profile)
           /\ CarriesIdentity(httpx_client, browser_profile)
           /\ js_session # NoSession => CarriesIdentity(js_session, browser_profile)

\* a response that fails the content policy: unsupported type, declared size
\* over the ceiling, or a JSON body that does not parse
PolicyViolation(r) ==
    LET content_type == Lower(r.content_type)
    IN \/ ~_is_supported_content_type(content_type)
       \/ r.has_content_length /\ r.content_length > MAX_CONTENT_SIZE
       \/ /\ ~Contains(content_type, <<"text/", "html">>)
          /\ Contains(content_type, <<"application/", "json">>)
          /\ ~r.json_valid

\* C10: a response that fails the content policy makes fetch_content raise
\* ValueError on that attempt, and the step leaves the retry machinery alone:
\* the fetch ends, no sleep, no rotation, no session dropped, no history
\* entry.  (The InvalidURL case is C1.)
C10_PolicyErrorsBypassRetry ==
    /\ []((pc = "idle" /\ response # NoneResponse /\ PolicyViolation(response))
            => /\ result.status = "raised"
               /\ result.exc = "ValueError"
               /\ e = NoError)
    /\ [][(pc = "attempt" /\ response' # NoneResponse /\ PolicyViolation(response'))
            => /\ pc' = "idle"
               /\ transport_calls' = transport_calls + 1
               /\ sleeps' = sleeps
               /\ browser_profile' = browser_profile
               /\ retry_attempt_history' = retry_attempt_history
               /\ DOMAIN session_pool \subseteq DOMAIN session_pool'
               /\ session' = session
               /\ httpx_client' = httpx_client]_vars

\* an oversized response arrived on the third attempt, after two retries
C10_Witness ==
    /\ pc = "idle"
    /\ result = Raised("ValueError", <<"Content too large">>)
    /\ attempt = 2
    /\ Len(retry_attempt_history) = 2

\* the fetch has ended after the transport returned a response
Responded == pc = "idle" /\ response # NoneResponse

\* the content type as fetch_content reads it (line 441)
DeclaredContentType == Lower(response.content_type)

\* the declared type begins with an entry of the allow-list
AllowListed(content_type) ==
    \E supported \in SUPPORTED_CONTENT_TYPES : StartsWith(content_type, supported)

\* C11 as claimed: a declared content type that is neither in the allow-list
\* nor prefixed text/ (an absent header included) makes fetch_content raise
\* ValueError("Unsupported content type") and return no result.
C11_OutsideAllowListRaises ==
    (/\ Responded
     /\ ~AllowListed(DeclaredContentType)
     /\ ~StartsWith(DeclaredContentType, <<"text/">>))
       => result = Raised("ValueError", <<"Unsupported content type">>)

\* C11 as amended: a declared content type that contains no allow-list entry,
\* is not prefixed text/ and contains neither "json" nor "xml" (an absent
\* header included) makes fetch_content raise ValueError("Unsupported content
\* type") and return no result; a type outside the allow-list that contains
\* "json" or "xml" is accepted and never raises that error.
C11_UnmatchedContentTypeRaises ==
    /\ (/\ Responded
        /\ ~(\E supported \in SUPPORTED_CONTENT_TYPES :
                 Contains(DeclaredContentType, supported))
        /\ ~StartsWith(DeclaredContentType, <<"text/">>)
        /\ ~Contains(DeclaredContentType, <<"json">>)
        /\ ~Contains(DeclaredContentType, <<"xml">>))
          => result = Raised("ValueError", <<"Unsupported content type">>)
    /\ (Responded /\ (Contains(DeclaredContentType, <<"json">>)
                          \/ Contains(DeclaredContentType, <<"xml">>)))
          => result # Raised("ValueError", <<"Unsupported content type">>)

\* a response without a Content-Type header was rejected
C11_Witness ==
    /\ Responded
    /\ response.content_type = <<>>
    /\ result = Raised("ValueError", <<"Unsupported content type">>)

\* the size of the response: the larger of what Content-Length declares and
\* what the received body measures
ResponseSize(r) ==
    Max(IF r.has_content_length THEN r.content_length ELSE 0, r.body_length)

\* C12: a response of a supported content type whose size exceeds
\* MAX_CONTENT_SIZE, declared in Content-Length or only measurable from the
\* received body, makes fetch_content raise ValueError("Content too large")
\* and return no result.
C12_OversizedResponseRaises ==
    (/\ Responded
     /\ _is_supported_content_type(DeclaredContentType)
     /\ ResponseSize(response) > MAX_CONTENT_SIZE)
       => result = Raised("ValueError", <<"Content too large">>)

\* an extractor has produced a result
HasExtracted == stage \in {"html", "json", "plain"}

\* C13: every result has word_count equal to the number of
\* whitespace-separated tokens of its content field, for HTML, JSON and plain
\* text, truncated or not.
C13_WordCountMatchesContent ==
    HasExtracted => word_count = WordCount(content)

\* C14: the content of every result is at most MAX_EXTRACTED_TEXT_LENGTH long,
\* and when the extracted text was longer than that, the content ends with
\* the truncation marker.
C14_ContentWithinLimitOrMarked ==
    HasExtracted
        => /\ TextLen(content) <= MAX_EXTRACTED_TEXT_LENGTH
           /\ TextLen(NormalizeWhitespace(text)) > MAX_EXTRACTED_TEXT_LENGTH
                => EndsWithMarker(content)

\* C15: _clean_text_content adds no marker to a text at or under the limit,
\* turns a longer one into its first MAX_EXTRACTED_TEXT_LENGTH characters
\* followed by the marker (leading whitespace aside), and returns its own
\* outputs unchanged.
C15_TruncationIdempotent ==
    /\ (stage \in {"cleaned", "recleaned"}
          /\ TextLen(NormalizeWhitespace(text)) <= MAX_EXTRACTED_TEXT_LENGTH)
          => ~EndsWithMarker(content)
    /\ (stage \in {"cleaned", "recleaned"}
          /\ TextLen(NormalizeWhitespace(text)) > MAX_EXTRACTED_TEXT_LENGTH)
          => content = LStrip(Cat(Take(NormalizeWhitespace(text), MAX_EXTRACTED_TEXT_LENGTH),
                                  TruncationMarker))
    /\ stage = "recleaned" => recleaned = content

\* the Fibonacci table of the claim
ClaimFibTable == <<1, 1, 2, 3, 5, 8, 13, 21, 34>>

C17_RenderOutcomeNeverFailsFetch ==
    (Responded /\ RenderInvoked(response))
        => /\ js_content \in {"markup", "None"}
           /\ js_content = "markup"
                => result = Success("success_js_rendered", "text/html", TRUE, "rendered")
           /\ js_content = "None"
                => result = Success("success", "text/html", FALSE, "original")

\* the requests-html fallback was tried, failed, and the fetch succeeded on
\* the original markup
C17_Witness ==
    /\ Responded
    /\ RenderInvoked(response)
    /\ js_content = "None"
    /\ js_session # NoSession
    /\ result.status = "success"
    /\ result.extracted_from = "original"

\* the indicator score of the claim: +2 for each strong marker, +1 for each
\* medium marker, +2 for a text ratio under 5% (else +1 under 10%), +1 for a
\* body with at most 3 direct children and under 500 visible characters
ClaimScore(m) ==
    2 * m.strong + m.medium
    + (IF 100 * m.visible_text_length < 5 * m.html_length THEN 2
       ELSE IF 100 * m.visible_text_length < 10 * m.html_length THEN 1
       ELSE 0)
    + (IF m.has_body /\ m.body_children <= 3 /\ m.visible_text_length < 500 THEN 1 ELSE 0)

\* C18: _needs_javascript_rendering returns true iff the stripped markup is
\* shorter than 300 characters or the indicator score is at least 2; one
\* strong marker alone yields true.
C18_ClassifierRule ==
    stage = "called"
        => /\ returned.needs_js <=> (args.stripped_length < 300 \/ ClaimScore(args) >= 2)
           /\ args.strong >= 1 => returned.needs_js

\* a long markup with healthy text ratio and a full body, classified as
\* needing rendering on one strong marker alone
C18_Witness ==
    /\ stage = "called"
    /\ args.stripped_length >= 300
    /\ args.strong = 1
    /\ args.medium = 0
    /\ 10 * args.visible_text_length >= args.html_length
    /\ args.body_children > 3
    /\ returned.needs_js

\* the elements of a sequence
Range(seq) == {seq[i] : i \in 1..Len(seq)}

\* the fixed order of the extraction strategies; html2txt and extract are the
\* two passes of the recall-oriented extractor, body and document the two
\* passes of the full body text
StrategyOrder == <<"html2txt", "extract", "readability", "selectors", "body", "document">>

StrategyIndex(k) == CHOOSE i \in 1..Len(StrategyOrder) : StrategyOrder[i] = k

\* the length floor a strategy's text has to clear to be usable
ClaimFloor(k) == IF k = "html2txt" THEN 100 ELSE 50

\* strategy k yielded usable text: it neither failed nor was unavailable, and
\* its text is over the floor
ClearsFloor(k) == args[k].status = "text" /\ args[k].length > ClaimFloor(k)

\* strategy k could not be called at all: its library or its element is missing
NotCallable(k) ==
    CASE k \in {"html2txt", "extract"} -> ~args.trafilatura_available
      [] k \in {"readability", "body"} -> args[k].status = "unavailable"
      [] OTHER -> FALSE

\* what strategy k yields on this document clears the floor
WouldClearFloor(k) == ~NotCallable(k) /\ ClearsFloor(k)

\* C19: the extraction strategies are called in one fixed order; a strategy is
\* called only after every earlier strategy was unavailable, failed or yielded
\* text at or under the floor; the returned content is the output of the first
\* strategy in the order whose text clears the floor, and it is the last one
\* called; a primary extractor output under 50 characters is always followed
\* by a call of the second extractor pass.
C19_FallbackChainOrder ==
    /\ \A i, j \in 1..Len(called) :
          i < j => StrategyIndex(called[i]) < StrategyIndex(called[j])
    /\ \A i \in 1..Len(called) :
          \A n \in 1..(StrategyIndex(called[i]) - 1) :
             LET k == StrategyOrder[n]
             IN IF \E j \in 1..(i - 1) : called[j] = k
                THEN ~ClearsFloor(k)
                ELSE NotCallable(k)
    /\ \A i \in 1..Len(called) :
          ClearsFloor(called[i]) => (i = Len(called) /\ stage = "called")
    /\ stage = "called"
          => /\ \A n \in 1..Len(StrategyOrder) :
                   LET k == StrategyOrder[n]
                   IN (/\ WouldClearFloor(k)
                       /\ \A m \in 1..(n - 1) : ~WouldClearFloor(StrategyOrder[m]))
                         => returned = [source |-> k, length |-> args[k].length]
             /\ ("html2txt" \in Range(called)
                   /\ (args.html2txt.status # "text" \/ args.html2txt.length < 50))
                   => "extract" \in Range(called)

\* C20: every link _extract_links returns comes from an anchor that has an
\* href and non-empty stripped text, with url the href resolved against the
\* page URL and starting with http:// or https://, and text the first 200
\* characters at most of the stripped text; the links are in document order;
\* <a href="/x">Click</a> on https://a.com/p yields {https://a.com/x, Click},
\* and no link has a mailto: URL.
C20_LinksComeFromAnchors ==
    stage = "called"
        => /\ \E f \in [1..Len(returned) -> 1..Len(args.soup)] :
                 /\ \A i, j \in 1..Len(returned) : i < j => f[i] < f[j]
                 /\ \A i \in 1..Len(returned) :
                       LET a == args.soup[f[i]]
                           l == returned[i]
                       IN /\ a.has_href
                          /\ Strip(a.text) # <<>>
                          /\ l.url = urljoin(args.base_url, a.href)
                          /\ Len(l.url) >= 3
                          /\ SubSeq(l.url, 1, 3) \in {<<"http", ":", "//">>, <<"https", ":", "//">>}
                          /\ TextLen(l.text) <= 200
                          /\ l.text = Take(Strip(a.text), TextLen(l.text))
           /\ (/\ args.base_url = <<"https", ":", "//", "a.com", "/", "p">>
               /\ \E j \in 1..Len(args.soup) :
                     args.soup[j] = Anchor(TRUE, <<"/", "x">>, Click))
                 => \E i \in 1..Len(returned) :
                       returned[i] = [url |-> <<"https", ":", "//", "a.com", "/", "x">>,
                                      text |-> Click]
           /\ \A i \in 1..Len(returned) : Head(returned[i].url) # "mailto"

\* a mailto: anchor followed by <a href="/x">Click</a> on https://a.com/p:
\* the one link returned is {https://a.com/x, Click}
C20_Witness ==
    /\ stage = "called"
    /\ args.base_url = <<"https", ":", "//", "a.com", "/", "p">>
    /\ args.soup = <<Anchor(TRUE, <<"mailto", ":", "a@b.c">>, Letters(4)),
                     Anchor(TRUE, <<"/", "x">>, Click)>>
    /\ returned = <<[url |-> <<"https", ":", "//", "a.com", "/", "x">>, text |-> Click]>>

\* json.loads on the JSON texts above: whitespace between tokens is skipped;
\* JsonInvalid stands for a JSONDecodeError
JsonInvalid == [kind |-> "invalid", n |-> 0, items |-> <<>>]

SkipSpace(doc) == LStrip(doc)

\* a string at the head of doc: its length and what follows it
ParseString(doc) ==
    IF doc = <<>> \/ Head(doc).ch # "\"" THEN [ok |-> FALSE, n |-> 0, rest |-> <<>>]
    ELSE IF Head(doc).n = 2 THEN [ok |-> TRUE, n |-> 0, rest |-> Tail(doc)]
    ELSE IF Head(doc).n = 1 /\ Len(doc) >= 3 /\ doc[2].ch = "a" /\ doc[3] = Run("\"", 1)
    THEN [ok |-> TRUE, n |-> doc[2].n, rest |-> SubSeq(doc, 4, Len(doc))]
    ELSE [ok |-> FALSE, n |-> 0, rest |-> <<>>]

\* the elements of an array after its first element, up to the closing bracket
RECURSIVE ParseMoreItems(_, _)
ParseMoreItems(doc, items) ==
    LET d == SkipSpace(doc)
    IN IF d = <<>> THEN JsonInvalid
       ELSE IF Head(d) = Run("]", 1)
       THEN IF SkipSpace(Tail(d)) = <<>> THEN JsonArray(items) ELSE JsonInvalid
       ELSE IF Head(d) = Run(",", 1)
       THEN LET str == ParseString(SkipSpace(Tail(d)))
            IN IF str.ok THEN ParseMoreItems(str.rest, Append(items, str.n)) ELSE JsonInvalid
       ELSE JsonInvalid

json_loads(doc) ==
    LET d == SkipSpace(doc)
    IN IF d = <<>> THEN JsonInvalid
       ELSE IF Head(d).ch = "\""
       THEN LET str == ParseString(d)
            IN IF str.ok /\ SkipSpace(str.rest) = <<>> THEN JsonString(str.n) ELSE JsonInvalid
       ELSE IF Head(d) = Run("[", 1)
       THEN LET first == SkipSpace(Tail(d))
            IN IF first # <<>> /\ Head(first).ch = "\""
               THEN LET str == ParseString(first)
                    IN IF str.ok THEN ParseMoreItems(str.rest, <<str.n>>) ELSE JsonInvalid
               ELSE ParseMoreItems(first, <<>>)
       ELSE JsonInvalid

\* C21: the content of a JSON result parses to the structure that was parsed
\* from the body.
C21_JsonContentRoundTrips ==
    stage = "json" => json_loads(content) = args

\* the renderer has been called for the current response and has returned
RenderReturned == pc = "render" /\ render_pc = "done"

\* C22: a renderer invocation makes at most two calls of each backend and
\* ends by handing fetch_content either markup or a failure (None or an empty
\* string), after which the fetch returns a result and raises nothing; no step
\* from the call of the renderer to the end of the try body changes the HTTP
\* attempt counter, the browser identity, the session pool's identity or the
\* retry history, and none sleeps a backoff delay or calls the transport.
C22_RendererIndependentOfRetryBudget ==
    /\ [](/\ backend_calls.playwright <= 2
          /\ backend_calls.requests_html <= 2
          /\ render_sleeps <= 2
          /\ RenderReturned => js_content \in {"markup", "None", "empty"})
    /\ [][pc = "render"
            => /\ attempt' = attempt
               /\ retry_attempt_history' = retry_attempt_history
               /\ browser_profile' = browser_profile
               /\ session_pool' = session_pool
               /\ session' = session
               /\ sleeps' = sleeps
               /\ transport_calls' = transport_calls
               /\ pc' \in {"render", "idle"}
               /\ pc' = "idle" => result'.status \in {"success", "success_js_rendered"}]_vars

\* on the second HTTP attempt, after one retry was recorded, both backends
\* were called twice and failed, and the fetch succeeded on the original
\* markup with the attempt counter and the history as they were
C22_Witness ==
    /\ pc = "idle"
    /\ attempt = 1
    /\ Len(retry_attempt_history) = 1
    /\ backend_calls = [playwright |-> 2, requests_html |-> 2]
    /\ render_sleeps = 2
    /\ js_content = "None"
    /\ result = Success("success", "text/html", FALSE, "original")

\* C23: without rotation, a request whose authority already has a session is
\* given that very session, cookies included, and creates nothing; a request
\* for a new authority is given a new, empty session stored under that
\* authority; the sessions of all other authorities are left alone, and a
\* session only ever holds cookies of requests for its own authority.
C23_OneSessionPerAuthority ==
    /\ [](\A d \in DOMAIN session_pool :
             \A c \in session_pool[d].cookies : c.netloc = d)
    /\ [][\A u \in SessionUrls :
            (args' = u /\ transport_calls' = transport_calls + 1)
               => /\ IF u.netloc \in DOMAIN session_pool
                     THEN /\ returned' = session_pool[u.netloc]
                          /\ DOMAIN session_pool' = DOMAIN session_pool
                     ELSE /\ returned' = NewDomainSession(browser_profile)
                          /\ DOMAIN session_pool' = DOMAIN session_pool \cup {u.netloc}
                  /\ \A d \in DOMAIN session_pool :
                        d # u.netloc => session_pool'[d] = session_pool[d]
                  /\ session_pool'[u.netloc].cookies = returned'.cookies \cup {u}]_vars

\* the third request, for https://a.com/q, is given the session that holds
\* the cookie of the first request, for https://a.com/p, and not the cookie
\* of the second, for https://b.com/p
C23_Witness ==
    /\ stage = "called"
    /\ transport_calls = 3
    /\ args = Url("https", "a.com", "/q", FALSE)
    /\ returned.cookies = {Url("https", "a.com", "/p", FALSE)}
    /\ DOMAIN session_pool = {"a.com", "b.com"}
    /\ session_pool["b.com"].cookies = {Url("https", "b.com", "/p", FALSE)}

\* the step in which an attempt fails and is retried
RetryStep == pc = "attempt" /\ pc' = "sleep"

\* C24: every step leaves retry_attempt_history as it is or appends one record
\* to it; a record is appended exactly by the steps that retry an attempt, and
\* it holds the attempt number, the error, its type, the delay and the
\* strategy; the delay recorded is the delay that time.sleep is then given;
\* whether a failed attempt is retried is decided by the attempt counter and
\* the error alone, and the delay by the strategy and the attempt counter.
C24_HistoryAppendOnly ==
    /\ [][\/ retry_attempt_history' = retry_attempt_history
          \/ /\ Len(retry_attempt_history') = Len(retry_attempt_history) + 1
             /\ SubSeq(retry_attempt_history', 1, Len(retry_attempt_history))
                   = retry_attempt_history]_vars
    /\ [][RetryStep <=> Len(retry_attempt_history') = Len(retry_attempt_history) + 1]_vars
    /\ [][RetryStep
            => /\ retry_attempt_history'[Len(retry_attempt_history')]
                     = [attempt |-> attempt + 1, error |-> e'.msg, error_type |-> e'.type,
                        delay |-> delay', strategy |-> retry_strategy]
               /\ \E jitter \in JitterChoices(retry_strategy, attempt) :
                     delay' = _calculate_retry_delay(retry_strategy, attempt, jitter)]_vars
    /\ [](pc = "sleep"
            => retry_attempt_history[Len(retry_attempt_history)].delay = delay)
    /\ [][(pc = "attempt" /\ e' # NoError)
            => (pc' = "sleep"
                  <=> (attempt < MAX_RETRY_ATTEMPTS - 1 /\ _is_retriable_error(e', NoResponse)))]_vars

\* the second fetch on an engine retries its first attempt: the history
\* already holds records of the first fetch, and the new record is appended
\* with attempt number 1
C24_Witness ==
    /\ pc = "sleep"
    /\ fetches = 2
    /\ attempt = 0
    /\ Len(retry_attempt_history) >= 2
    /\ retry_attempt_history[Len(retry_attempt_history)].attempt = 1
    /\ retry_attempt_history[Len(retry_attempt_history)].delay = delay

\* the fields of a success record that the claim lists
RecordFields ==
    {"url", "title", "description", "content", "content_type", "word_count", "links"}

\* the failure was raised by a validation or content-policy check
ValidationOrigin(msg) ==
    \E phrase \in {"Invalid URL format", "Unsupported content type", "Content too large",
                   "Invalid JSON content"} : Contains(msg, <<phrase>>)

\* the failure was raised after a transport error
TransportOrigin(msg) ==
    \E phrase \in {"Unexpected error in fetch_content", "Failed to fetch URL after"} :
       Contains(msg, <<phrase>>)

\* C25: every record web_fetch_tool builds carries the fields url, title,
\* description, content, content_type, word_count and links; a record of a
\* failed fetch has the input URL, status error, a non-empty error message,
\* and error_type client_error exactly when the failure is of validation
\* origin and network_error exactly when it is of transport origin.
C25_ErrorRecordShapeAndType ==
    \A i \in 1..Len(results) :
       LET rec == results[i]
       IN /\ RecordFields \subseteq DOMAIN rec
          /\ rec.status = "error"
                => /\ rec.url = args.url[i]
                   /\ {"error", "error_type"} \subseteq DOMAIN rec
                   /\ rec.error # <<>>
                   /\ rec.title = "" /\ rec.content = "" /\ rec.word_count = 0
                   /\ rec.links = <<>>
                   /\ ValidationOrigin(rec.error) # TransportOrigin(rec.error)
                   /\ rec.error_type = "client_error" <=> ValidationOrigin(rec.error)
                   /\ rec.error_type = "network_error" <=> TransportOrigin(rec.error)

\* one call whose first URL failed validation and whose second URL failed in
\* the transport
C25_Witness ==
    /\ stage = "called"
    /\ Len(results) = 2
    /\ results[1].status = "error"
    /\ results[1].error_type = "client_error"
    /\ results[2].status = "error"
    /\ results[2].error_type = "network_error"
    /\ Contains(results[2].error, <<"Failed to fetch URL after">>)

\* the records with a success status among the first n of a list
SuccessRecords(recs) ==
    {i \in 1..Len(recs) : recs[i].status \in {"success", "success_js_rendered"}}

C27_RequestsCarryLanguage ==
    \A i \in 1..Len(api_requests) :
        IF args.language # "en"
        THEN /\ "lr" \in DOMAIN api_requests[i]
             /\ api_requests[i].lr = <<"lang_", args.language>>
        ELSE "lr" \notin DOMAIN api_requests[i]

\* C29: the identity drawn by a retry-triggered rotation is an entry of the
\* catalogue and differs from the identity in use on the failed attempt: the
\* rotation never re-selects the browser profile of the attempt that failed.
C29_RotationDrawsDifferentProfile ==
    [][RetryStep => /\ new_profile' \in BROWSER_PROFILES
                    /\ browser_profile' = new_profile'
                    /\ browser_profile' # browser_profile]_vars

\* an anchor qualifies when it has an href, its stripped text is not empty and
\* its href resolves to an http:// or https:// URL
Qualifies(a, base_url) ==
    /\ a.has_href
    /\ Strip(a.text) # <<>>
    /\ IsHttpUrl(urljoin(base_url, a.href))

\* C30: a page with n qualifying anchors yields the links of the first
\* min(n, MAX_LINKS_EXTRACT) of them, in document order, however many
\* anchors that do not qualify precede them.
C30_CapOnQualifyingLinks ==
    stage = "called"
        => LET qualifying == SelectSeq(args.soup, LAMBDA a : Qualifies(a, args.base_url))
           IN returned = [i \in 1..Min(Len(qualifying), MAX_LINKS_EXTRACT) |->
                             [url |-> urljoin(args.base_url, qualifying[i].href),
                              text |-> Take(Strip(qualifying[i].text), 200)]]

\* a rotation has cleared session_pool and not yet assigned browser_profile
RotationUnderWay == \E t \in 1..Len(threads) : threads[t].pc = "assign"

\* C28: with two fetch_content calls running on one engine, whenever no
\* rotation is under way every session in session_pool carries the headers
\* and the user agent of the current browser_profile (none was created with
\* an identity that a completed rotation replaced), and no transport call
\* completes on a session that a rotation of the other call dropped while
\* the call was in flight.
C28_RotationExcludesSessionUse ==
    /\ [](~RotationUnderWay
            => \A d \in DOMAIN session_pool :
                  /\ session_pool[d].headers = ProfileHeaders(browser_profile)
                  /\ session_pool[d].user_agent = ProfileUserAgent(browser_profile))
    /\ [][\A t \in 1..Len(threads) :
             (threads[t].pc = "get" /\ threads'[t].pc # "get") => ~threads[t].dropped]_vars

====
